---- MODULE Spec2Model ----
(***************************************************************************)
(* Model of the acoustics core in src/acoustics_cpp/acoustics.cpp:         *)
(* MaterialDatabase, Triangle, RayTracer, FastConvolution,                 *)
(* ImpulseResponseGenerator and AcousticSimulator.                         *)
(*                                                                         *)
(* Number representation.  The code computes in IEEE single precision.     *)
(* The model computes in fixed point:                                      *)
(*   - positions and lengths are integers in decimetres (0.1 m);           *)
(*   - dimensionless values (coefficients, attenuations, samples) are      *)
(*     integers in thousandths (Q = 1000).                                 *)
(* Rounding therefore differs from the float build in the last digit; the  *)
(* control flow, comparisons, ordering and indexing are those of the code. *)
(***************************************************************************)
EXTENDS Integers, Sequences, FiniteSets, TLC

(***************************************************************************)
(* Bounds of the model                                                     *)
(***************************************************************************)
MaxTris == 2          \* longest mesh the caller builds
MaxSignalLen == 2     \* longest input signal / impulse response of a direct convolve call
MaxThreads == 2       \* threads that use the material registry concurrently
SizeBits == 12        \* modelled width of size_t (the build has 64)
MaxRecords == 2       \* longest list of path records handed to generateIR directly

(***************************************************************************)
(* Fixed-point helpers                                                     *)
(***************************************************************************)
Q == 1000
DM == 10

Abs(a) == IF a < 0 THEN -a ELSE a
Min(a, b) == IF a < b THEN a ELSE b
Max(a, b) == IF a > b THEN a ELSE b

\* the result of a float division by zero (inf or NaN)
NonFinite == -2000000000

\* the value of an expression, computed once: the element of a one-element set
The(S) == CHOOSE r \in S : TRUE

\* a * b on Q-scaled values, rounded to nearest
FMul(a, b) ==
    The({IF x = NonFinite \/ y = NonFinite THEN NonFinite
         ELSE IF (x < 0) = (y < 0)
              THEN (Abs(x) * Abs(y) + (Q \div 2)) \div Q
              ELSE -((Abs(x) * Abs(y) + (Q \div 2)) \div Q) :
             x \in {a}, y \in {b}})

\* a / b on Q-scaled values, rounded to nearest
FDiv(a, b) ==
    The({IF x = NonFinite \/ y = NonFinite \/ y = 0 THEN NonFinite
         ELSE IF (x < 0) = (y < 0)
              THEN (Abs(x) * Q + (Abs(y) \div 2)) \div Abs(y)
              ELSE -((Abs(x) * Q + (Abs(y) \div 2)) \div Abs(y)) :
             x \in {a}, y \in {b}})

RECURSIVE SqrtSearch(_, _, _)
SqrtSearch(n, lo, hi) ==
    IF lo >= hi THEN lo
    ELSE The({IF mid * mid <= n THEN SqrtSearch(n, mid, hi)
              ELSE SqrtSearch(n, lo, mid - 1) :
                  mid \in {(lo + hi + 1) \div 2}})

\* std::sqrt on a non-negative integer, rounded down
ISqrt(n) == The({SqrtSearch(m, 0, Min(m, 4096)) : m \in {n}})

\* std::exp(-e) for e >= 0 given in thousandths, result in thousandths
RECURSIVE ExpNeg(_)
ExpNeg(e) ==
    IF e > 16000 THEN 0
    ELSE IF e > 250 THEN
        LET h1 == ExpNeg(e \div 2)
            h2 == ExpNeg(e - (e \div 2))
        IN FMul(h1, h2)
    ELSE Q - e + ((e * e) \div (2 * Q)) - ((e * e * e) \div (6 * Q * Q))

(***************************************************************************)
(* Vector3                                                                 *)
(***************************************************************************)
Vec(x, y, z) == [x |-> x, y |-> y, z |-> z]

VSub(a, b) == Vec(a.x - b.x, a.y - b.y, a.z - b.z)

VLength(v) == ISqrt(v.x * v.x + v.y * v.y + v.z * v.z)

VDot(a, b) == a.x * b.x + a.y * b.y + a.z * b.z

VCross(a, b) ==
    Vec(a.y * b.z - a.z * b.y, a.z * b.x - a.x * b.z, a.x * b.y - a.y * b.x)

\* length() of v in hundredths
VLengthC(v) == ISqrt(100 * 100 * (v.x * v.x + v.y * v.y + v.z * v.z))

\* Vector3(x/len, y/len, z/len) without the test of len
normalizeUnguarded(v) ==
    The({Vec(FDiv(100 * v.x, len), FDiv(100 * v.y, len), FDiv(100 * v.z, len)) :
             len \in {VLengthC(v)}})

\* normalize(): components in thousandths; the zero vector unless
\* len > 0.0001 (v is a cross product of decimetre vectors: 0.01 dm^2)
normalize(v) ==
    The({IF len > 1
         THEN Vec(FDiv(100 * v.x, len), FDiv(100 * v.y, len), FDiv(100 * v.z, len))
         ELSE Vec(0, 0, 0) :
             len \in {VLengthC(v)}})

(***************************************************************************)
(* Material registry                                                       *)
(***************************************************************************)
Six(a, b, c, d, e, f) == <<a, b, c, d, e, f>>

\* MaterialProperties(): the default-constructed profile
DefaultMaterialProperties ==
    [name |-> "",
     absorptionCoeff |-> Six(100, 100, 100, 100, 100, 100),
     reflectionCoeff |-> Six(900, 900, 900, 900, 900, 900),
     diffusionCoeff |-> 500, density |-> 1,
     speedOfSound |-> 343, impedance |-> 413]

ConcreteProfile ==
    [name |-> "Concrete",
     absorptionCoeff |-> Six(10, 10, 20, 20, 30, 40),
     reflectionCoeff |-> Six(990, 990, 980, 980, 970, 960),
     diffusionCoeff |-> 150, density |-> 2400,
     speedOfSound |-> 3200, impedance |-> 7680000]

OakProfile ==
    [name |-> "Oak",
     absorptionCoeff |-> Six(150, 150, 100, 100, 100, 100),
     reflectionCoeff |-> Six(850, 850, 900, 900, 900, 900),
     diffusionCoeff |-> 300, density |-> 750,
     speedOfSound |-> 3850, impedance |-> 2890000]

CarpetProfile ==
    [name |-> "Carpet",
     absorptionCoeff |-> Six(80, 240, 570, 690, 710, 730),
     reflectionCoeff |-> Six(920, 760, 430, 310, 290, 270),
     diffusionCoeff |-> 800, density |-> 200,
     speedOfSound |-> 100, impedance |-> 20000]

\* std::unordered_map as a function from its keys; the empty map
EmptyMap == [k \in {} |-> DefaultMaterialProperties]

\* map[key] = value
MapPut(m, key, value) ==
    [k \in (DOMAIN m) \cup {key} |-> IF k = key THEN value ELSE m[k]]

\* the map after map[key] is evaluated: operator[] inserts a
\* default-constructed value when the key is absent
MapIndex(m, key) ==
    IF key \in DOMAIN m THEN m ELSE MapPut(m, key, DefaultMaterialProperties)

initializeMaterials(m) ==
    MapPut(MapPut(MapPut(m, "concrete", ConcreteProfile),
                  "oak", OakProfile),
           "carpet", CarpetProfile)

\* the key getMaterial indexes with when find() misses
FallbackKeyIsName(name) == name

FallbackKey(name) == "concrete"

\* what getMaterial returns when find() misses
FallbackValueDefault(m, name) == DefaultMaterialProperties

FallbackValue(m, name) == MapIndex(m, FallbackKey(name))[FallbackKey(name)]

\* getMaterial(name): the returned profile
getMaterial(m, name) ==
    IF name \in DOMAIN m THEN m[name] ELSE FallbackValue(m, name)

\* getMaterial(name): the map afterwards
getMaterialMap(m, name) ==
    IF name \in DOMAIN m THEN m ELSE MapIndex(m, FallbackKey(name))

\* getInstance(): the map of the function-local static, constructed on first use
getInstanceMap(constructed, m) ==
    IF constructed THEN m ELSE initializeMaterials(EmptyMap)

(***************************************************************************)
(* Triangle                                                                *)
(***************************************************************************)
Tri(v0, v1, v2, material) ==
    [v0 |-> v0, v1 |-> v1, v2 |-> v2, material |-> material]

\* a / 3.0f, rounded to the nearest decimetre
Third(a) == IF a < 0 THEN -((-a + 1) \div 3) ELSE (a + 1) \div 3

center(tri) ==
    Vec(Third(tri.v0.x + tri.v1.x + tri.v2.x),
        Third(tri.v0.y + tri.v1.y + tri.v2.y),
        Third(tri.v0.z + tri.v1.z + tri.v2.z))

\* normal()
normal(tri) == normalize(VCross(VSub(tri.v1, tri.v0), VSub(tri.v2, tri.v0)))

\* what an intersect call that returns early leaves: false, which of the
\* output parameters were assigned, and their values as fractions over a
\* (u = nu / a, v = nv / a)
Miss(uSet, vSet, a, nu, nv) ==
    [hit |-> FALSE, uSet |-> uSet, vSet |-> vSet, tSet |-> FALSE,
     a |-> a, nu |-> nu, nv |-> nv, nt |-> 0, normal |-> Vec(0, 0, 0)]

\* a > -EPSILON && a < EPSILON, on integer coordinates
Parallel(a) == a = 0

\* u < 0.0f || u > 1.0f, with u = nu / a
UOutside(a, nu) == nu * a < 0 \/ nu * a > a * a

\* v < 0.0f alone
VOutsideNoSum(a, nu, nv) == nv * a < 0

\* v < 0.0f || u + v > 1.0f, with u = nu / a and v = nv / a
VOutside(a, nu, nv) == nv * a < 0 \/ (nu + nv) * a > a * a

\* t > EPSILON, with t = nt / a
TAhead(a, nt) == nt * a > 0

\* intersect(origin, dir, t, u, v)
intersect(tri, origin, dir) ==
    LET edge1 == VSub(tri.v1, tri.v0)
        edge2 == VSub(tri.v2, tri.v0)
        h == VCross(dir, edge2)
        a == VDot(edge1, h)
        s == VSub(origin, tri.v0)
        nu == VDot(s, h)
        q == VCross(s, edge1)
        nv == VDot(dir, q)
        nt == VDot(edge2, q)
    IN IF Parallel(a) THEN Miss(FALSE, FALSE, a, 0, 0)
       ELSE IF UOutside(a, nu) THEN Miss(TRUE, FALSE, a, nu, 0)
       ELSE IF VOutside(a, nu, nv) THEN Miss(TRUE, TRUE, a, nu, nv)
       ELSE [hit |-> TAhead(a, nt), uSet |-> TRUE, vSet |-> TRUE, tSet |-> TRUE,
             a |-> a, nu |-> nu, nv |-> nv, nt |-> nt, normal |-> Vec(0, 0, 0)]

(***************************************************************************)
(* RayTracer                                                               *)
(***************************************************************************)
\* RayTracer(geometry, speedOfSound, maxReflections, maxDistance);
\* geometry names the vector the tracer points to
RayTracer(geometry, speedOfSound, maxReflections, maxDistance) ==
    [geometry_ |-> geometry, speedOfSound_ |-> speedOfSound,
     maxReflections_ |-> maxReflections, maxDistance_ |-> maxDistance]

DefaultSpeedOfSound == 343
DefaultMaxReflections == 10
DefaultMaxDistance == 1000     \* 100.0 m in decimetres

Freqs == Six(125, 250, 500, 1000, 2000, 4000)
Ones == Six(Q, Q, Q, Q, Q, Q)

\* distAtten = 1.0f / std::min(distance, 0.1f)
calculateAttenuationClampMin(distance, reflCoeff) ==
    LET distAtten(d) == (DM * Q + (Min(d, 1) \div 2)) \div Max(Min(d, 1), 1)
        airAtten(d, i) == ExpNeg((12 * d * Freqs[i]) \div 100000)
    IN The({[i \in 1..6 |-> FMul(FMul(reflCoeff[i], distAtten(d)), airAtten(d, i))] :
                d \in {distance}})

calculateAttenuation(distance, reflCoeff) ==
    LET distAtten(d) == (DM * Q + (Max(d, 1) \div 2)) \div Max(d, 1)
        airAtten(d, i) == ExpNeg((12 * d * Freqs[i]) \div 100000)
    IN The({[i \in 1..6 |-> FMul(FMul(reflCoeff[i], distAtten(d)), airAtten(d, i))] :
                d \in {distance}})

\* the first vertex instead of the centroid
findReflectionPointVertex(source, mic, tri) == tri.v0

findReflectionPoint(source, mic, tri) == center(tri)

\* the max-distance test of both candidates
WithinStrict(len, tr) == len < tr.maxDistance_

Within(len, tr) == len <= tr.maxDistance_

\* pathLength stored in the direct record
DirectLengthUnset(directDist) == 0

DirectLength(directDist) == directDist

\* reflectionCount stored in a first-order record
ReflectionOrderFromLimit(tr) == tr.maxReflections_

ReflectionOrder(tr) == 1

\* the direct-path block without the max-distance test
DirectPartUngated(tr, source, mic) ==
    LET directDist == VLength(VSub(mic, source))
    IN << [pathLength |-> DirectLength(directDist),
           reflectionPoint |-> source,
           reflectionCount |-> 0,
           attenuation |-> calculateAttenuation(directDist, Ones),
           triangle |-> 0] >>

\* the direct-path block: zero or one record
DirectPart(tr, source, mic) ==
    LET directDist == VLength(VSub(mic, source))
    IN IF Within(directDist, tr)
       THEN << [pathLength |-> DirectLength(directDist),
                reflectionPoint |-> source,
                reflectionCount |-> 0,
                attenuation |-> calculateAttenuation(directDist, Ones),
                triangle |-> 0] >>
       ELSE << >>

\* one iteration of the loop over *geometry_: st carries the result vector
\* and the registry; triangle is the position of tri in the traced vector
TraceStep(tr, mesh, i, source, mic, st) ==
    LET tri == mesh[i]
        refPoint == findReflectionPoint(source, mic, tri)
        pathLen == VLength(VSub(refPoint, source)) + VLength(VSub(mic, refPoint))
        db == getInstanceMap(st.constructed, st.materials)
        mat == getMaterial(db, tri.material)
    IN IF Within(pathLen, tr)
       THEN [reflections |-> Append(st.reflections,
                [pathLength |-> pathLen,
                 reflectionPoint |-> refPoint,
                 reflectionCount |-> ReflectionOrder(tr),
                 attenuation |-> calculateAttenuation(pathLen, mat.reflectionCoeff),
                 triangle |-> i]),
             constructed |-> TRUE,
             inits |-> st.inits + (IF st.constructed THEN 0 ELSE 1),
             materials |-> getMaterialMap(db, tri.material)]
       ELSE st

\* index of the triangle visited k-th by the loop
VisitReversed(mesh, k) == Len(mesh) + 1 - k

Visit(mesh, k) == k

RECURSIVE TraceLoop(_, _, _, _, _, _)
TraceLoop(tr, mesh, k, source, mic, st) ==
    IF k > Len(mesh) THEN st
    ELSE TraceLoop(tr, mesh, k + 1, source, mic,
                   TraceStep(tr, mesh, Visit(mesh, k), source, mic, st))

\* tracePath(source, mic) on the vector mesh that geometry_ points to;
\* the result record holds the returned vector and the registry afterwards
tracePath(tr, mesh, source, mic, constructed, inits, materials) ==
    TraceLoop(tr, mesh, 1, source, mic,
              [reflections |-> DirectPart(tr, source, mic),
               constructed |-> constructed,
               inits |-> inits,
               materials |-> materials])

(***************************************************************************)
(* FastConvolution                                                         *)
(***************************************************************************)
SizeMod == 2 ^ SizeBits

\* std::vector<float>::max_size()
VectorMaxSize == ((SizeMod \div 2) - 1) \div 4

\* size_t resultSize = signal.size() + ir.size() - 1
ResultSizeNoMinusOne(signal, ir) == (Len(signal) + Len(ir)) % SizeMod

ResultSize(signal, ir) == (Len(signal) + Len(ir) - 1) % SizeMod

\* the indices i + j the double loop writes to
WriteIndices(signal, ir) ==
    {i + j : i \in 0..(Len(signal) - 1), j \in 0..(Len(ir) - 1)}

\* result[i + j] = signal[i] * ir[j]: the last write to result[k] wins
ConvolveSampleOverwrite(signal, ir, k) ==
    LET valid == {i \in 0..(Len(signal) - 1) : k - i >= 0 /\ k - i < Len(ir)}
        last == CHOOSE i \in valid : \A h \in valid : h <= i
    IN IF valid = {} THEN 0 ELSE FMul(signal[last + 1], ir[k - last + 1])

\* result[i + j + 1] += signal[i] * ir[j]: every write lands one sample late
ConvolveSampleShifted(signal, ir, k) ==
    LET term(i) == IF k - 1 - i >= 0 /\ k - 1 - i < Len(ir)
                   THEN FMul(signal[i + 1], ir[k - i]) ELSE 0
        Sum[i \in 0..Len(signal)] ==
            IF i = 0 THEN 0 ELSE Sum[i - 1] + term(i - 1)
    IN Sum[Len(signal)]

\* result[i + j] += signal[i] * ir[j], for all i, j, into the zero vector
ConvolveSample(signal, ir, k) ==
    LET term(i) == IF k - i >= 0 /\ k - i < Len(ir)
                   THEN FMul(signal[i + 1], ir[k - i + 1]) ELSE 0
        Sum[i \in 0..Len(signal)] ==
            IF i = 0 THEN 0 ELSE Sum[i - 1] + term(i - 1)
    IN Sum[Len(signal)]

\* convolve(signal, ir): the vector constructor throws std::length_error
\* when resultSize exceeds max_size()
convolve(signal, ir) ==
    LET resultSize == ResultSize(signal, ir)
    IN IF resultSize > VectorMaxSize
       THEN [threw |-> TRUE, oob |-> FALSE, value |-> << >>]
       ELSE [threw |-> FALSE,
             oob |-> \E w \in WriteIndices(signal, ir) : w >= resultSize,
             value |-> [k \in 1..resultSize |-> ConvolveSample(signal, ir, k - 1)]]

\* convolveOptimized(signal, ir): return convolve(signal, ir)
convolveOptimized(signal, ir) == convolve(signal, ir)

(***************************************************************************)
(* ImpulseResponseGenerator                                                *)
(***************************************************************************)
ImpulseResponseGenerator(sampleRate, speedOfSound) ==
    [sampleRate_ |-> sampleRate, speedOfSound_ |-> speedOfSound]

DefaultDurationSec == 2 * Q     \* durations are in thousandths of a second
PulseLenMax == 64

\* static_cast<int>(durationSec * sampleRate_) + 1
NumSamplesPlusOne(gen, durationSec) == ((durationSec * gen.sampleRate_) \div Q) + 1

\* static_cast<int>(durationSec * sampleRate_)
NumSamples(gen, durationSec) == (durationSec * gen.sampleRate_) \div Q

\* static_cast<int>(delaySec * sampleRate_), pathLength in decimetres
DelaySamples(gen, refl) ==
    (refl.pathLength * gen.sampleRate_) \div (gen.speedOfSound_ * DM)

\* the first band's value instead of the mean
AmplitudeFirstBand(refl) == refl.attenuation[1]

\* amplitude: the sum of refl.attenuation divided by its size
Amplitude(refl) ==
    LET a == refl.attenuation
    IN (a[1] + a[2] + a[3] + a[4] + a[5] + a[6]) \div 6

\* std::exp(-i / (sampleRate_ * 0.01f))
Decay(gen, i) == ExpNeg((i * 100 * Q) \div gen.sampleRate_)

\* std::min(64, numSamples), without the delay
PulseLenIgnoresDelay(numSamples, delaySamples) == Min(PulseLenMax, numSamples)

\* int pulseLen = std::min(64, numSamples - delaySamples)
PulseLen(numSamples, delaySamples) == Min(PulseLenMax, numSamples - delaySamples)

\* the indices delaySamples + i that the pulse loop of one record writes to
PulseWrites(gen, numSamples, refl) ==
    LET delaySamples == DelaySamples(gen, refl)
    IN IF delaySamples < numSamples
       THEN {delaySamples + i : i \in 0..(PulseLen(numSamples, delaySamples) - 1)}
       ELSE {}

\* ir[delaySamples + i] = amplitude * decay
AddPulseOverwrite(gen, ir, refl) ==
    LET delaySamples == DelaySamples(gen, refl)
        writes == PulseWrites(gen, Len(ir), refl)
    IN [n \in 1..Len(ir) |->
           IF n - 1 \in writes
           THEN FMul(Amplitude(refl), Decay(gen, n - 1 - delaySamples))
           ELSE ir[n]]

\* the body of the loop over the reflections: ir after one record is added
\* (ir[delaySamples + i] += amplitude * decay)
AddPulse(gen, ir, refl) ==
    LET delaySamples == DelaySamples(gen, refl)
        writes == PulseWrites(gen, Len(ir), refl)
    IN [n \in 1..Len(ir) |->
           IF n - 1 \in writes
           THEN ir[n] + FMul(Amplitude(refl), Decay(gen, n - 1 - delaySamples))
           ELSE ir[n]]

RECURSIVE AddPulses(_, _, _, _)
AddPulses(gen, ir, reflections, k) ==
    IF k > Len(reflections) THEN ir
    ELSE AddPulses(gen, AddPulse(gen, ir, reflections[k]), reflections, k + 1)

generateIR(gen, reflections, durationSec) ==
    LET numSamples == NumSamples(gen, durationSec)
    IN AddPulses(gen, [n \in 1..numSamples |-> 0], reflections, 1)

\* every index generateIR writes to
generateIRWrites(gen, reflections, durationSec) ==
    UNION {PulseWrites(gen, NumSamples(gen, durationSec), reflections[k]) :
               k \in 1..Len(reflections)}

\* what a generateIR call leaves: the returned buffer and the indices written
IRResult(gen, reflections, durationSec) ==
    [value |-> generateIR(gen, reflections, durationSec),
     writes |-> generateIRWrites(gen, reflections, durationSec)]

(***************************************************************************)
(* AcousticSimulator                                                       *)
(***************************************************************************)
\* maxVal = std::max(maxVal, sample), without std::abs
RECURSIVE MaxNoAbs(_, _)
MaxNoAbs(output, k) ==
    IF k = 0 THEN 0 ELSE Max(MaxNoAbs(output, k - 1), output[k])

RECURSIVE MaxAbs(_, _)
MaxAbs(output, k) ==
    IF k = 0 THEN 0 ELSE Max(MaxAbs(output, k - 1), Abs(output[k]))

\* sample / maxVal * 0.9f
Normalized(sample, maxVal) == FMul(FDiv(sample, maxVal), 900)

\* the scaling loop without the maxVal > 0 test
NormalizeUnguarded(output) ==
    LET maxVal == MaxAbs(output, Len(output))
    IN [k \in 1..Len(output) |-> Normalized(output[k], maxVal)]

Normalize(output) ==
    LET maxVal == MaxAbs(output, Len(output))
    IN IF maxVal > 0
       THEN [k \in 1..Len(output) |-> Normalized(output[k], maxVal)]
       ELSE output

\* AcousticSimulator(geometry, sampleRate): geometry_ is a copy of *geometry,
\* rayTracer_ is built from the pointer the caller passed
AcousticSimulator(callerVector, contents, sampleRate) ==
    [geometry_ |-> contents,
     sampleRate_ |-> sampleRate,
     rayTracer_ |-> RayTracer(callerVector, DefaultSpeedOfSound,
                              DefaultMaxReflections, DefaultMaxDistance),
     irGen_ |-> ImpulseResponseGenerator(sampleRate, DefaultSpeedOfSound)]

\* the vector the tracer built by setMaxReflections points to
OwnVector(s) == "geometry_"

setMaxReflections(s, max) ==
    [s EXCEPT !.rayTracer_ = RayTracer(OwnVector(s), 343, max, 1000)]

(***************************************************************************)
(* Inputs                                                                  *)
(***************************************************************************)
NoVec == Vec(0, 0, 0)

Positions == {Vec(0, 0, 15), Vec(30, 40, 15), Vec(1200, 0, 15)}

Floor == Tri(Vec(-50, -30, 0), Vec(50, -30, 0), Vec(50, 30, 0), "concrete")
Wall == Tri(Vec(0, 0, 0), Vec(0, 0, 30), Vec(0, 30, 0), "glass")
Far == Tri(Vec(2000, 0, 0), Vec(2000, 30, 0), Vec(2030, 0, 0), "carpet")

Triangles == {Floor, Wall, Far}

Meshes == UNION {[1..n -> Triangles] : n \in 0..MaxTris}

SampleRates == {2, 3, 10, 40}
SimSampleRates == {2, 3}
ReflectionLimits == {-1, 0, 1, 2, 10}
MaxDistances == {0, 50, 77, 1000}
Names == {"concrete", "oak", "carpet", "", "Concrete", "glass"}
Samples == {-500, 0, 1000}
Signals == UNION {[1..n -> Samples] : n \in 0..MaxSignalLen}
IRSamples == {-500, 1000}
ImpulseResponses == UNION {[1..n -> IRSamples] : n \in 0..MaxSignalLen}
SimSignals == {<< >>, <<0>>, <<1000>>, <<0, -500>>}
SimPositions == {<<Vec(0, 0, 15), Vec(30, 40, 15)>>,
                 <<Vec(0, 0, 15), Vec(0, 0, 15)>>,
                 <<Vec(0, 0, 15), Vec(1200, 0, 15)>>}
SimMeshes == {<< >>, <<Floor>>, <<Wall, Far>>}
SimReflectionLimits == {0, 10}
\* a triangle whose reflection arrives one sample after the direct sound at
\* 10 samples per second
Mid == Tri(Vec(300, 0, 0), Vec(300, 30, 0), Vec(330, 0, 0), "carpet")
SimTriangles == {Mid}
Threads == 1..MaxThreads

\* path records handed to generateIR directly
Rec(pathLength, attenuation) ==
    [pathLength |-> pathLength, reflectionPoint |-> NoVec, reflectionCount |-> 1,
     attenuation |-> attenuation, triangle |-> 1]
IRRecords == {Rec(50, Six(500, 500, 500, 500, 500, 500)),
              Rec(50, Six(1000, 800, 600, 400, 200, 0)),
              Rec(2000, Six(-300, -300, -300, -300, -300, -300))}
IRRecordLists == UNION {[1..n -> IRRecords] : n \in 0..MaxRecords}
IRSampleRates == {3, 10, 40}
IRDurations == {0, 500, 2000}

\* path lengths (decimetres) and coefficient arrays handed to
\* calculateAttenuation; the arrays include values outside [0, 1]
Distances == {0, 1, 2, 5, 10, 30, 100, 300}
CoeffArrays == {Ones,
                ConcreteProfile.reflectionCoeff,
                Six(1500, 1000, 500, 20, 0, -500),
                Six(0, 0, 0, 0, 0, 0),
                Six(-1000, -20, 300, 2000, 900, 100)}

\* triangles, ray origins and ray directions handed to intersect and normal
Corner(material) == Tri(Vec(0, 0, 0), Vec(4, 0, 0), Vec(0, 4, 0), material)
HitTriangles == {Corner("concrete"),
                 Tri(Vec(0, 0, 0), Vec(0, 4, 0), Vec(4, 0, 0), "glass"),
                 Tri(Vec(0, 0, 0), Vec(0, 3, 0), Vec(0, 0, 3), "carpet"),
                 Tri(Vec(0, 0, 0), Vec(2, 0, 0), Vec(4, 0, 0), "concrete"),
                 Tri(Vec(1, 1, 1), Vec(1, 1, 1), Vec(3, 0, 2), "concrete"),
                 Tri(Vec(2, 2, 2), Vec(2, 2, 2), Vec(2, 2, 2), "concrete")}
Origins == {Vec(1, 1, 2), Vec(1, 1, -2), Vec(1, 1, 0), Vec(0, 0, 2),
            Vec(4, 0, 2), Vec(2, 2, 2), Vec(3, 3, 2), Vec(-1, 1, 2),
            Vec(2, 1, 1), Vec(1, -1, 2), Vec(0, 0, 0), Vec(5, 1, 1)}
Directions == {Vec(0, 0, -1), Vec(0, 0, 1), Vec(1, 0, 0), Vec(-1, 0, 0),
               Vec(0, 1, 0), Vec(1, 1, 0), Vec(0, 0, 0), Vec(1, 0, -1),
               Vec(-1, -1, -1), Vec(0, -1, -2)}

NoTri == Tri(NoVec, NoVec, NoVec, "")
NoOp == [name |-> "none", source |-> NoVec, mic |-> NoVec,
         signal |-> << >>, ir |-> << >>, mesh |-> << >>, max |-> 0,
         recs |-> << >>, duration |-> 0, rate |-> 0, speed |-> 0,
         tri |-> NoTri, dir |-> NoVec, distance |-> 0, coeff |-> << >>]

(***************************************************************************)
(* AudioEngine (AudioEngine.js): the engine object and the Web Audio       *)
(* objects it has created.  Oscillator nodes are numbered in the order of  *)
(* creation, gain nodes and contexts are counted; context 0 is null.       *)
(***************************************************************************)
MaxNodes == 3         \* most oscillators, gain nodes or contexts created in one run

SourceIds == {"a", "b"}
OutputIds == {"mic"}

NoSources == [id \in {} |-> 0]

\* new AudioEngine(): no context, empty maps, not initialized
AudioEngine ==
    [context |-> 0, sources |-> NoSources, outputs |-> {},
     isInitialized |-> FALSE]

\* the Web Audio objects created so far
NoAudio == [contexts |-> 0, closed |-> {}, gains |-> 0, oscillators |-> << >>]

\* an engine, the audio objects, and the error the last call threw ("" if none)
JS(e, a, t) == [engine |-> e, audio |-> a, threw |-> t]

\* context.createOscillator() followed by connect(gainNode)
OscillatorNode(gainNode) ==
    [gainNode |-> gainNode, connected |-> TRUE, starts |-> 0, stops |-> 0]

MapSet(m, k, v) == [x \in DOMAIN m \cup {k} |-> IF x = k THEN v ELSE m[x]]
MapDelete(m, k) == [x \in DOMAIN m \ {k} |-> m[x]]

initialize(s) ==
    IF s.engine.isInitialized THEN [s EXCEPT !.threw = ""]
    ELSE JS([s.engine EXCEPT !.context = s.audio.contexts + 1,
                             !.isInitialized = TRUE],
            [s.audio EXCEPT !.contexts = @ + 1, !.gains = @ + 1],
            "")

createSource(s, id) ==
    IF ~s.engine.isInitialized
    THEN [s EXCEPT !.threw = "Audio engine not initialized"]
    ELSE LET gainNode == s.audio.gains + 1
             oscillator == Len(s.audio.oscillators) + 1
         IN JS([s.engine EXCEPT !.sources =
                    MapSet(@, id, [oscillator |-> oscillator,
                                   gainNode |-> gainNode,
                                   isPlaying |-> FALSE])],
               [s.audio EXCEPT !.gains = gainNode,
                               !.oscillators =
                                   Append(@, OscillatorNode(gainNode))],
               "")

startSource(s, id) ==
    IF id \notin DOMAIN s.engine.sources \/ s.engine.sources[id].isPlaying
    THEN [s EXCEPT !.threw = ""]
    ELSE LET source == s.engine.sources[id]
         IN JS([s.engine EXCEPT !.sources[id].isPlaying = TRUE],
               [s.audio EXCEPT !.oscillators[source.oscillator].starts = @ + 1],
               "")

\* stopSource that stops the oscillator and keeps it for the next start
stopSourceKeepOscillator(s, id) ==
    IF id \notin DOMAIN s.engine.sources \/ ~s.engine.sources[id].isPlaying
    THEN [s EXCEPT !.threw = ""]
    ELSE LET source == s.engine.sources[id]
         IN JS([s.engine EXCEPT !.sources[id].isPlaying = FALSE],
               [s.audio EXCEPT !.oscillators[source.oscillator].stops = @ + 1],
               "")

stopSource(s, id) ==
    IF id \notin DOMAIN s.engine.sources \/ ~s.engine.sources[id].isPlaying
    THEN [s EXCEPT !.threw = ""]
    ELSE LET source == s.engine.sources[id]
             newOscillator == Len(s.audio.oscillators) + 1
         IN JS([s.engine EXCEPT !.sources[id].isPlaying = FALSE,
                                !.sources[id].oscillator = newOscillator],
               [s.audio EXCEPT !.oscillators =
                    Append([@ EXCEPT ![source.oscillator].stops = @ + 1],
                           OscillatorNode(source.gainNode))],
               "")

removeSource(s, id) ==
    IF id \notin DOMAIN s.engine.sources THEN [s EXCEPT !.threw = ""]
    ELSE LET stopped == IF s.engine.sources[id].isPlaying
                        THEN stopSource(s, id) ELSE s
             source == stopped.engine.sources[id]
         IN JS([stopped.engine EXCEPT !.sources = MapDelete(@, id)],
               [stopped.audio EXCEPT
                    !.oscillators[source.oscillator].connected = FALSE],
               "")

createOutput(s, id) ==
    IF s.engine.context = 0 THEN [s EXCEPT !.threw = "TypeError"]
    ELSE JS([s.engine EXCEPT !.outputs = @ \cup {id}],
            [s.audio EXCEPT !.gains = @ + 1],
            "")

removeOutput(s, id) ==
    JS([s.engine EXCEPT !.outputs = @ \ {id}], s.audio, "")

\* sources.forEach of dispose: stopSource for every source that is playing
RECURSIVE StopAll(_, _)
StopAll(s, ids) ==
    IF ids = {} THEN s
    ELSE LET id == CHOOSE x \in ids : TRUE
             next == IF s.engine.sources[id].isPlaying
                     THEN stopSource(s, id) ELSE s
         IN StopAll(next, ids \ {id})

dispose(s) ==
    LET stopped == StopAll(s, DOMAIN s.engine.sources)
    IN JS([context |-> 0, sources |-> NoSources, outputs |-> {},
           isInitialized |-> FALSE],
          [stopped.audio EXCEPT !.closed =
               IF stopped.engine.context = 0 THEN @
               ELSE @ \cup {stopped.engine.context}],
          "")

\* how many oscillators, gain nodes and contexts a call creates at most
Playing(e) == {id \in DOMAIN e.sources : e.sources[id].isPlaying}

(***************************************************************************)
(* GeometryLoader (AudioEngine.js).  A source is a URL string, modelled as *)
(* the sequence of its parts between dots; the cache key of a string       *)
(* source is the string itself.  A result object is numbered by the file   *)
(* loader invocation that produced it.                                     *)
(***************************************************************************)
MaxFileLoads == 3     \* most file loader invocations in one run

LoadCalls == {1, 2}   \* the load calls that may be pending at the same time

Sources == { <<"room", "obj">>, <<"hall", "STL">>, <<"scan", "xyz">> }

\* the format argument of load; "" stands for an omitted (null) format
Formats == {"", "obj", "STL", "xyz"}

\* String.prototype.toLowerCase on the strings that occur
ToLowerCase(str) ==
    CASE str = "OBJ" -> "obj"
      [] str = "STL" -> "stl"
      [] str = "GLTF" -> "gltf"
      [] str = "GLB" -> "glb"
      [] OTHER -> str

\* detectFormat(filename): "" stands for throwing 'Unknown file format'
detectFormat(filename) ==
    LET ext == ToLowerCase(filename[Len(filename)])
    IN IF ext = "obj" THEN "obj"
       ELSE IF ext = "stl" THEN "stl"
       ELSE IF ext \in {"gltf", "glb"} THEN "gltf"
       ELSE ""

\* the file loader the switch of load selects; "" stands for the default branch
FileLoader(format) ==
    LET f == ToLowerCase(format)
    IN IF f = "obj" THEN "loadOBJ"
       ELSE IF f = "stl" THEN "loadSTL"
       ELSE IF f \in {"gltf", "glb"} THEN "loadGLTF"
       ELSE ""

NoCache == [k \in {} |-> 0]

\* new GeometryLoader(): an empty cache; fileLoads counts loader invocations,
\* completed is the set of keys loaded successfully since the last clearCache
GeometryLoader == [cache |-> NoCache, fileLoads |-> 0, completed |-> {}]

IdleLoad == [pc |-> "idle", source |-> << >>, format |-> "", file |-> 0,
             with |-> {}]

NoLoad == [call |-> 0, source |-> << >>, format |-> "", outcome |-> "none",
           error |-> "", result |-> 0, invoked |-> FALSE,
           cacheBefore |-> NoCache, cacheAfter |-> NoCache, with |-> {}]

\* load up to its first await: what the call does synchronously
\*   outcome "rejected": the call threw; "resolved": the cached result is
\*   returned; "awaiting": a file loader was invoked
load(ldr, source, format) ==
    LET detected == IF format = "" THEN detectFormat(source) ELSE format
        cacheKey == source
    IN IF format = "" /\ detected = ""
       THEN [outcome |-> "rejected", error |-> "Unknown file format",
             result |-> 0, invoked |-> FALSE]
       ELSE IF cacheKey \in DOMAIN ldr.cache
       THEN [outcome |-> "resolved", error |-> "",
             result |-> ldr.cache[cacheKey], invoked |-> FALSE]
       ELSE IF FileLoader(detected) = ""
       THEN [outcome |-> "rejected", error |-> "Unsupported format",
             result |-> 0, invoked |-> FALSE]
       ELSE [outcome |-> "awaiting", error |-> "",
             result |-> 0, invoked |-> TRUE]

(***************************************************************************)
(* Electron main process (acoustics.cpp, from line 479).  mainWindow is 0  *)
(* when the variable is undefined or null and 1 when it refers to the open  *)
(* BrowserWindow; windows is BrowserWindow.getAllWindows().length.         *)
(***************************************************************************)
Platforms == {"darwin", "linux"}

\* menu items whose click handler sends to mainWindow.webContents at once
SendItems == {"New Project", "Save Project", "Perspective View", "Top View",
              "Front View", "Side View", "Reset Camera", "Start/Stop",
              "Add Source", "Add Output", "Settings..."}

\* menu items whose click handler awaits a dialog and then sends
DialogItems == {"Open Project...", "Import 3D Model...", "Export Audio..."}

\* the process before app.whenReady() resolves
MainProcess(platform) ==
    [platform |-> platform, ready |-> FALSE, quit |-> FALSE,
     mainWindow |-> 0, windows |-> 0, shown |-> FALSE, menu |-> FALSE,
     dialog |-> "", event |-> "none", item |-> "", deref |-> "none"]

(***************************************************************************)
(* State                                                                   *)
(***************************************************************************)
VARIABLES
    room,          \* the caller's std::vector<Triangle>
    sim,           \* the AcousticSimulator built over &room
    tracer,        \* a RayTracer the caller built over &room
    materials_,    \* MaterialDatabase::materials_ of the static instance
    constructed,   \* whether the static instance has been constructed
    inits,         \* how many times initializeMaterials has run
    pc,            \* per thread: where it is in getInstance().getMaterial(name)
    arg,           \* per thread: the name it passed
    ret,           \* per thread: what its last getMaterial returned
    op,            \* the last call made and its arguments
    reflections,   \* the vector tracePath returned in the call op names
    output,        \* what convolve or simulate returned in the call op names
    irBuf,         \* what generateIR returned in the call op names
    hit,           \* what Triangle::intersect and normal returned in the call op names
    att,           \* what calculateAttenuation returned in the call op names
    simPc,         \* the statement of simulate that runs next
    steps,         \* the steps the running simulate call has completed
    calls,         \* the last two recorded simulate calls, oldest first
    engine,        \* the AudioEngine object
    audio,         \* the Web Audio contexts and nodes created so far
    jsCall,        \* the last AudioEngine call, its argument, what it threw and the state before it
    loader,        \* the GeometryLoader object
    loads,         \* per load call: where it is in GeometryLoader.load
    done,          \* the load call that completed last
    app            \* the Electron main process

vars == <<room, sim, tracer, materials_, constructed, inits, pc, arg, ret,
          op, reflections, output, irBuf, hit, att, simPc, steps, calls,
          engine, audio, jsCall, loader, loads, done, app>>

jsVars == <<engine, audio, jsCall, loader, loads, done, app>>

auxVars == <<irBuf, hit, att, simPc, steps, calls, jsVars>>

cppVars == <<room, sim, tracer, materials_, constructed, inits, pc, arg, ret,
             op, reflections, output, irBuf, hit, att, simPc, steps, calls>>

registryVars == <<materials_, constructed, inits>>
threadVars == <<pc, arg, ret>>

NoCall == [name |-> "none", id |-> "", threw |-> "",
           before |-> JS(AudioEngine, NoAudio, "")]
NoResult == [threw |-> FALSE, oob |-> FALSE, value |-> << >>]
NoIR == [value |-> << >>, writes |-> {}]
NoHit == [hit |-> FALSE, uSet |-> FALSE, vSet |-> FALSE, tSet |-> FALSE,
          a |-> 0, nu |-> 0, nv |-> 0, nt |-> 0, normal |-> NoVec]

\* the vector a geometry pointer refers to
Deref(ptr) == IF ptr = "room" THEN room ELSE sim.geometry_

\* the C++ objects after construction
InitNative ==
    /\ room \in Meshes
    /\ \E sampleRate \in SampleRates :
           sim = AcousticSimulator("room", room, sampleRate)
    /\ tracer = RayTracer("room", DefaultSpeedOfSound, DefaultMaxReflections,
                          DefaultMaxDistance)
    /\ materials_ = EmptyMap
    /\ constructed = FALSE
    /\ inits = 0
    /\ pc = [t \in Threads |-> "idle"]
    /\ arg = [t \in Threads |-> ""]
    /\ ret = [t \in Threads |-> DefaultMaterialProperties]
    /\ op = NoOp
    /\ reflections = << >>
    /\ output = NoResult
    /\ irBuf = NoIR
    /\ hit = NoHit
    /\ att = << >>
    /\ simPc = "idle"
    /\ steps = << >>
    /\ calls = << >>

\* the JavaScript objects after construction, on the given platform
InitJS(platform) ==
    /\ engine = AudioEngine
    /\ audio = NoAudio
    /\ jsCall = NoCall
    /\ loader = GeometryLoader
    /\ loads = [c \in LoadCalls |-> IdleLoad]
    /\ done = NoLoad
    /\ app = MainProcess(platform)

Init == InitNative /\ InitJS("darwin")

(***************************************************************************)
(* RayTracer operations                                                    *)
(***************************************************************************)
\* the caller builds a RayTracer over its vector
NewRayTracer(maxReflections, maxDistance) ==
    /\ tracer' = RayTracer("room", DefaultSpeedOfSound, maxReflections, maxDistance)
    /\ op' = [NoOp EXCEPT !.name = "RayTracer", !.max = maxReflections]
    /\ UNCHANGED <<room, sim, registryVars, threadVars, auxVars>>
    /\ reflections' = << >>
    /\ output' = NoResult

\* tracer.tracePath(source, mic)
TracePath(source, mic) ==
    \E r \in {tracePath(tracer, Deref(tracer.geometry_), source, mic,
                        constructed, inits, materials_)} :
       /\ reflections' = r.reflections
       /\ materials_' = r.materials
       /\ constructed' = r.constructed
       /\ inits' = r.inits
       /\ op' = [NoOp EXCEPT !.name = "tracePath", !.source = source,
                             !.mic = mic, !.mesh = Deref(tracer.geometry_),
                             !.max = tracer.maxReflections_]
       /\ UNCHANGED <<room, sim, tracer, threadVars, output, auxVars>>

NextTracer ==
    \/ \E m \in ReflectionLimits, d \in MaxDistances : NewRayTracer(m, d)
    \/ \E source \in Positions, mic \in Positions : TracePath(source, mic)

InitTracer == Init /\ sim.sampleRate_ = 2

SpecTracer == InitTracer /\ [][NextTracer]_vars

(***************************************************************************)
(* AcousticSimulator operations                                            *)
(***************************************************************************)
\* the caller appends a triangle to the vector it passed to the constructor
RoomPushBack(tri) ==
    /\ Len(room) < MaxTris
    /\ room' = Append(room, tri)
    /\ op' = [NoOp EXCEPT !.name = "push_back"]
    /\ UNCHANGED <<sim, tracer, registryVars, threadVars, auxVars>>
    /\ reflections' = << >>
    /\ output' = NoResult

\* the caller removes the last triangle of that vector
RoomPopBack ==
    /\ room # << >>
    /\ room' = SubSeq(room, 1, Len(room) - 1)
    /\ op' = [NoOp EXCEPT !.name = "pop_back"]
    /\ UNCHANGED <<sim, tracer, registryVars, threadVars, auxVars>>
    /\ reflections' = << >>
    /\ output' = NoResult

\* sim.setMaxReflections(max)
SetMaxReflections(max) ==
    /\ sim' = setMaxReflections(sim, max)
    /\ op' = [NoOp EXCEPT !.name = "setMaxReflections", !.max = max]
    /\ UNCHANGED <<room, tracer, registryVars, threadVars, auxVars>>
    /\ reflections' = << >>
    /\ output' = NoResult

\* steps 2 to 4 of simulate on the traced reflections
simulateTail(s, refl, sourceAudio) ==
    LET ir == generateIR(s.irGen_, refl, DefaultDurationSec)
        conv == convolve(sourceAudio, ir)
    IN IF conv.threw THEN conv
       ELSE [conv EXCEPT !.value = Normalize(conv.value)]

\* sim.simulate(sourcePos, sourceAudio, micPos)
Simulate(sourcePos, sourceAudio, micPos) ==
    \E r \in {tracePath(sim.rayTracer_, Deref(sim.rayTracer_.geometry_),
                        sourcePos, micPos, constructed, inits, materials_)} :
       /\ reflections' = r.reflections
       /\ materials_' = r.materials
       /\ constructed' = r.constructed
       /\ inits' = r.inits
       /\ output' = simulateTail(sim, r.reflections, sourceAudio)
       /\ op' = [NoOp EXCEPT !.name = "simulate", !.source = sourcePos,
                             !.mic = micPos, !.signal = sourceAudio,
                             !.mesh = Deref(sim.rayTracer_.geometry_),
                             !.max = sim.rayTracer_.maxReflections_]
       /\ UNCHANGED <<room, sim, tracer, threadVars, auxVars>>

InitSim == Init /\ room \in SimMeshes /\ sim.sampleRate_ \in SimSampleRates

NextSim ==
    \/ \E tri \in Triangles : RoomPushBack(tri)
    \/ RoomPopBack
    \/ \E max \in SimReflectionLimits : SetMaxReflections(max)
    \/ \E p \in SimPositions, sourceAudio \in SimSignals :
           Simulate(p[1], sourceAudio, p[2])

SpecSim == InitSim /\ [][NextSim]_vars

(***************************************************************************)
(* simulate calls on one Simulator with nothing but changes of the         *)
(* caller's own vector in between                                          *)
(***************************************************************************)
\* sim.simulate(sourcePos, sourceAudio, micPos); the call is recorded with
\* the Simulator and the registry before and after it
SimulateRecorded(sourcePos, sourceAudio, micPos) ==
    \E r \in {tracePath(sim.rayTracer_, Deref(sim.rayTracer_.geometry_),
                        sourcePos, micPos, constructed, inits, materials_)} :
       /\ reflections' = r.reflections
       /\ materials_' = r.materials
       /\ constructed' = r.constructed
       /\ inits' = r.inits
       /\ output' = simulateTail(sim, r.reflections, sourceAudio)
       /\ sim' = sim
       /\ op' = [NoOp EXCEPT !.name = "simulate", !.source = sourcePos,
                             !.mic = micPos, !.signal = sourceAudio,
                             !.mesh = Deref(sim.rayTracer_.geometry_),
                             !.max = sim.rayTracer_.maxReflections_]
       /\ calls' = (IF calls = << >> THEN << >> ELSE << calls[Len(calls)] >>) \o
                   << [source |-> sourcePos, signal |-> sourceAudio,
                       mic |-> micPos, simBefore |-> sim, simAfter |-> sim',
                       registryBefore |-> getInstanceMap(constructed, materials_),
                       registryAfter |-> getInstanceMap(constructed', materials_'),
                       output |-> output'] >>
       /\ UNCHANGED <<room, tracer, threadVars, irBuf, hit, att, simPc, steps, jsVars>>

InitSimRepeat == Init /\ room = << >> /\ sim.sampleRate_ = 10

NextSimRepeat ==
    \/ \E tri \in SimTriangles : RoomPushBack(tri)
    \/ RoomPopBack
    \/ \E p \in SimPositions, sourceAudio \in SimSignals :
           SimulateRecorded(p[1], sourceAudio, p[2])

SpecSimRepeat == InitSimRepeat /\ [][NextSimRepeat]_vars

(***************************************************************************)
(* simulate, one step per statement of its body                            *)
(***************************************************************************)
\* the statement after tracePath is convolve: generateIR is left out
NextStatementSkipsIR(pcv) ==
    CASE pcv = "trace" -> "convolve"
      [] pcv = "generateIR" -> "convolve"
      [] pcv = "convolve" -> "normalize"
      [] pcv = "normalize" -> "done"

\* the statement of simulate's body that follows statement pcv
NextStatement(pcv) ==
    CASE pcv = "trace" -> "generateIR"
      [] pcv = "generateIR" -> "convolve"
      [] pcv = "convolve" -> "normalize"
      [] pcv = "normalize" -> "done"

\* entry of sim.simulate(sourcePos, sourceAudio, micPos)
SimulateCall(sourcePos, sourceAudio, micPos) ==
    /\ simPc \in {"idle", "done"}
    /\ simPc' = "trace"
    /\ steps' = << >>
    /\ op' = [NoOp EXCEPT !.name = "simulate", !.source = sourcePos,
                          !.mic = micPos, !.signal = sourceAudio,
                          !.mesh = Deref(sim.rayTracer_.geometry_),
                          !.max = sim.rayTracer_.maxReflections_]
    /\ reflections' = << >>
    /\ irBuf' = NoIR
    /\ output' = NoResult
    /\ UNCHANGED <<room, sim, tracer, registryVars, threadVars, hit, att, calls, jsVars>>

\* auto reflections = rayTracer_.tracePath(sourcePos, micPos)
SimulateTrace ==
    /\ simPc = "trace"
    /\ \E r \in {tracePath(sim.rayTracer_, Deref(sim.rayTracer_.geometry_),
                           op.source, op.mic, constructed, inits, materials_)} :
          /\ reflections' = r.reflections
          /\ materials_' = r.materials
          /\ constructed' = r.constructed
          /\ inits' = r.inits
    /\ steps' = Append(steps, "trace")
    /\ simPc' = NextStatement("trace")
    /\ UNCHANGED <<room, sim, tracer, threadVars, op, output, irBuf, hit, att, calls, jsVars>>

\* auto ir = irGen_.generateIR(reflections)
SimulateGenerateIR ==
    /\ simPc = "generateIR"
    /\ irBuf' = IRResult(sim.irGen_, reflections, DefaultDurationSec)
    /\ steps' = Append(steps, "generateIR")
    /\ simPc' = NextStatement("generateIR")
    /\ UNCHANGED <<room, sim, tracer, registryVars, threadVars, op,
                   reflections, output, hit, att, calls, jsVars>>

\* auto output = FastConvolution::convolve(sourceAudio, ir)
SimulateConvolve ==
    /\ simPc = "convolve"
    /\ \E conv \in {convolve(op.signal, irBuf.value)} :
          /\ output' = conv
          /\ simPc' = IF conv.threw THEN "threw" ELSE NextStatement("convolve")
    /\ steps' = Append(steps, "convolve")
    /\ UNCHANGED <<room, sim, tracer, registryVars, threadVars, op,
                   reflections, irBuf, hit, att, calls, jsVars>>

\* the two normalisation loops and the return
SimulateNormalize ==
    /\ simPc = "normalize"
    /\ output' = [output EXCEPT !.value = Normalize(output.value)]
    /\ steps' = Append(steps, "normalize")
    /\ simPc' = NextStatement("normalize")
    /\ UNCHANGED <<room, sim, tracer, registryVars, threadVars, op,
                   reflections, irBuf, hit, att, calls, jsVars>>

\* the running call executes its next statement
SimulateStep ==
    \/ SimulateTrace
    \/ SimulateGenerateIR
    \/ SimulateConvolve
    \/ SimulateNormalize

\* sim.setMaxReflections(max), between two simulate calls
SetMaxReflectionsBetweenCalls(max) ==
    /\ simPc \in {"idle", "done"}
    /\ SetMaxReflections(max)

NextSimulate ==
    \/ \E p \in SimPositions, sourceAudio \in SimSignals :
           SimulateCall(p[1], sourceAudio, p[2])
    \/ SimulateStep
    \/ \E max \in SimReflectionLimits : SetMaxReflectionsBetweenCalls(max)

\* simulate is synchronous straight-line code over finite loops: a call that
\* has started keeps executing its statements
SpecSimulate == InitSim /\ [][NextSimulate]_vars /\ WF_vars(SimulateStep)

(***************************************************************************)
(* FastConvolution operations                                              *)
(***************************************************************************)
\* FastConvolution::convolve(signal, ir)
Convolve(signal, ir) ==
    /\ output' = convolve(signal, ir)
    /\ op' = [NoOp EXCEPT !.name = "convolve", !.signal = signal, !.ir = ir]
    /\ UNCHANGED <<room, sim, tracer, registryVars, threadVars, reflections, auxVars>>

\* FastConvolution::convolveOptimized(signal, ir)
ConvolveOptimized(signal, ir) ==
    /\ output' = convolveOptimized(signal, ir)
    /\ op' = [NoOp EXCEPT !.name = "convolveOptimized", !.signal = signal, !.ir = ir]
    /\ UNCHANGED <<room, sim, tracer, registryVars, threadVars, reflections, auxVars>>

InitConvolve == Init /\ room = << >> /\ sim.sampleRate_ = 2

NextConvolve ==
    \/ \E signal \in Signals, ir \in ImpulseResponses : Convolve(signal, ir)
    \/ \E signal \in Signals, ir \in ImpulseResponses :
           ConvolveOptimized(signal, ir)

SpecConvolve == InitConvolve /\ [][NextConvolve]_vars

(***************************************************************************)
(* ImpulseResponseGenerator operations                                     *)
(***************************************************************************)
\* irGen_.generateIR(recs, durationSec), on the generator built with the
\* sample rate given at construction
GenerateIR(recs, durationSec) ==
    /\ irBuf' = IRResult(sim.irGen_, recs, durationSec)
    /\ op' = [NoOp EXCEPT !.name = "generateIR", !.recs = recs,
                          !.duration = durationSec,
                          !.rate = sim.irGen_.sampleRate_,
                          !.speed = sim.irGen_.speedOfSound_]
    /\ UNCHANGED <<room, sim, tracer, registryVars, threadVars, reflections,
                   output, hit, att, simPc, steps, calls, jsVars>>

InitIR == Init /\ room = << >> /\ sim.sampleRate_ \in IRSampleRates

NextIR ==
    \E recs \in IRRecordLists, durationSec \in IRDurations :
        GenerateIR(recs, durationSec)

SpecIR == InitIR /\ [][NextIR]_vars

(***************************************************************************)
(* Triangle operations                                                     *)
(***************************************************************************)
\* tri.intersect(origin, dir, t, u, v)
Intersect(tri, origin, dir) ==
    /\ hit' = intersect(tri, origin, dir)
    /\ op' = [NoOp EXCEPT !.name = "intersect", !.tri = tri,
                          !.source = origin, !.dir = dir]
    /\ UNCHANGED <<room, sim, tracer, registryVars, threadVars, reflections,
                   output, irBuf, att, simPc, steps, calls, jsVars>>

\* tri.normal()
Normal(tri) ==
    /\ hit' = [NoHit EXCEPT !.normal = normal(tri)]
    /\ op' = [NoOp EXCEPT !.name = "normal", !.tri = tri]
    /\ UNCHANGED <<room, sim, tracer, registryVars, threadVars, reflections,
                   output, irBuf, att, simPc, steps, calls, jsVars>>

InitTriangle == Init /\ room = << >> /\ sim.sampleRate_ = 2

NextTriangle ==
    \/ \E tri \in HitTriangles, origin \in Origins, dir \in Directions :
           Intersect(tri, origin, dir)
    \/ \E tri \in HitTriangles : Normal(tri)

SpecTriangle == InitTriangle /\ [][NextTriangle]_vars

(***************************************************************************)
(* calculateAttenuation, called twice in a row: att holds the last two     *)
(* calls, oldest first                                                     *)
(***************************************************************************)
Attenuate(distance, reflCoeff) ==
    /\ att' = (IF att = << >> THEN << >> ELSE << att[Len(att)] >>) \o
              << [distance |-> distance, coeff |-> reflCoeff,
                  value |-> calculateAttenuation(distance, reflCoeff)] >>
    /\ op' = [NoOp EXCEPT !.name = "calculateAttenuation",
                          !.distance = distance, !.coeff = reflCoeff]
    /\ UNCHANGED <<room, sim, tracer, registryVars, threadVars, reflections,
                   output, irBuf, hit, simPc, steps, calls, jsVars>>

InitAttenuation == Init /\ room = << >> /\ sim.sampleRate_ = 2

NextAttenuation ==
    \E distance \in Distances, reflCoeff \in CoeffArrays :
        Attenuate(distance, reflCoeff)

SpecAttenuation == InitAttenuation /\ [][NextAttenuation]_vars

(***************************************************************************)
(* MaterialDatabase operations, one step per statement, per thread         *)
(***************************************************************************)
\* thread t starts MaterialDatabase::getInstance().getMaterial(name)
CallGetMaterial(t, name) ==
    /\ pc[t] \in {"idle", "done"}
    /\ pc' = [pc EXCEPT ![t] = "getInstance"]
    /\ arg' = [arg EXCEPT ![t] = name]
    /\ UNCHANGED <<room, sim, tracer, registryVars, ret, op, reflections, output, auxVars>>

\* getInstance(): the static is constructed by the first thread to get here
GetInstance(t) ==
    /\ pc[t] = "getInstance"
    /\ materials_' = getInstanceMap(constructed, materials_)
    /\ inits' = inits + (IF constructed THEN 0 ELSE 1)
    /\ constructed' = TRUE
    /\ pc' = [pc EXCEPT ![t] = "find"]
    /\ UNCHANGED <<room, sim, tracer, arg, ret, op, reflections, output, auxVars>>

\* auto it = materials_.find(name); if found, return it->second
Find(t) ==
    /\ pc[t] = "find"
    /\ IF arg[t] \in DOMAIN materials_
       THEN /\ ret' = [ret EXCEPT ![t] = materials_[arg[t]]]
            /\ pc' = [pc EXCEPT ![t] = "done"]
       ELSE /\ pc' = [pc EXCEPT ![t] = "index"]
            /\ UNCHANGED ret
    /\ UNCHANGED <<room, sim, tracer, registryVars, arg, op, reflections, output, auxVars>>

\* return materials_["concrete"]
Index(t) ==
    /\ pc[t] = "index"
    /\ ret' = [ret EXCEPT ![t] = FallbackValue(materials_, arg[t])]
    /\ materials_' = MapIndex(materials_, FallbackKey(arg[t]))
    /\ pc' = [pc EXCEPT ![t] = "done"]
    /\ UNCHANGED <<room, sim, tracer, constructed, inits, arg, op, reflections, output, auxVars>>

InitRegistry == Init /\ room = << >> /\ sim.sampleRate_ = 2

NextRegistry ==
    \/ \E t \in Threads, name \in Names : CallGetMaterial(t, name)
    \/ \E t \in Threads : GetInstance(t)
    \/ \E t \in Threads : Find(t)
    \/ \E t \in Threads : Index(t)

SpecRegistry == InitRegistry /\ [][NextRegistry]_vars

(***************************************************************************)
(* AudioEngine operations                                                  *)
(***************************************************************************)
\* the engine and its audio objects as they are now
Now == JS(engine, audio, "")

\* the run stops creating contexts and nodes at MaxNodes of each kind
WithinBounds(s) ==
    /\ s.audio.contexts <= MaxNodes
    /\ s.audio.gains <= MaxNodes
    /\ Len(s.audio.oscillators) <= MaxNodes

\* a call of the method `name` with argument id that leaves the engine as s
EngineCall(name, id, s) ==
    /\ WithinBounds(s)
    /\ engine' = s.engine
    /\ audio' = s.audio
    /\ jsCall' = [name |-> name, id |-> id, threw |-> s.threw, before |-> Now]
    /\ UNCHANGED <<cppVars, loader, loads, done, app>>

Initialize == EngineCall("initialize", "", initialize(Now))
CreateSource(id) == EngineCall("createSource", id, createSource(Now, id))
StartSource(id) == EngineCall("startSource", id, startSource(Now, id))
StopSource(id) == EngineCall("stopSource", id, stopSource(Now, id))
RemoveSource(id) == EngineCall("removeSource", id, removeSource(Now, id))
CreateOutput(id) == EngineCall("createOutput", id, createOutput(Now, id))
RemoveOutput(id) == EngineCall("removeOutput", id, removeOutput(Now, id))
Dispose == EngineCall("dispose", "", dispose(Now))

InitAudioEngine == Init /\ room = << >> /\ sim.sampleRate_ = 2

NextAudioEngine ==
    \/ Initialize
    \/ \E id \in SourceIds : CreateSource(id)
    \/ \E id \in SourceIds : StartSource(id)
    \/ \E id \in SourceIds : StopSource(id)
    \/ \E id \in SourceIds : RemoveSource(id)
    \/ \E id \in OutputIds : CreateOutput(id)
    \/ \E id \in OutputIds : RemoveOutput(id)
    \/ Dispose

SpecAudioEngine == InitAudioEngine /\ [][NextAudioEngine]_vars

(***************************************************************************)
(* GeometryLoader operations.  A load call runs up to its await in one     *)
(* step; the file loader's callback and the rest of load run in a later    *)
(* step, and other calls may run in between.                               *)
(***************************************************************************)
\* the file loader invocations that pending calls for `source` are awaiting
Pending(source) ==
    {loads[d].file : d \in {x \in LoadCalls : /\ loads[x].pc = "awaiting"
                                              /\ loads[x].source = source}}

\* geometryLoader.load(source, format), up to its first await
LoadCall(c, source, format) ==
    /\ loads[c].pc = "idle"
    /\ \E r \in {load(loader, source, format)} :
          IF r.outcome = "awaiting"
          THEN /\ loader.fileLoads < MaxFileLoads
               /\ loader' = [loader EXCEPT !.fileLoads = @ + 1]
               /\ loads' = [loads EXCEPT ![c] =
                      [pc |-> "awaiting", source |-> source, format |-> format,
                       file |-> loader.fileLoads + 1, with |-> Pending(source)]]
               /\ UNCHANGED done
          ELSE /\ done' = [call |-> c, source |-> source, format |-> format,
                           outcome |-> r.outcome, error |-> r.error,
                           result |-> r.result, invoked |-> FALSE,
                           cacheBefore |-> loader.cache,
                           cacheAfter |-> loader.cache, with |-> {}]
               /\ UNCHANGED <<loader, loads>>
    /\ UNCHANGED <<cppVars, engine, audio, jsCall, app>>

\* the file loader calls onLoad: the promise resolves, load stores the
\* result in the cache and returns it
FileLoaded(c) ==
    /\ loads[c].pc = "awaiting"
    /\ loader' = [loader EXCEPT
                     !.cache = MapSet(@, loads[c].source, loads[c].file),
                     !.completed = @ \cup {loads[c].source}]
    /\ done' = [call |-> c, source |-> loads[c].source,
                format |-> loads[c].format, outcome |-> "resolved",
                error |-> "", result |-> loads[c].file, invoked |-> TRUE,
                cacheBefore |-> loader.cache, cacheAfter |-> loader'.cache,
                with |-> loads[c].with]
    /\ loads' = [loads EXCEPT ![c] = IdleLoad]
    /\ UNCHANGED <<cppVars, engine, audio, jsCall, app>>

\* the file loader calls onError: the promise rejects and load throws
FileFailed(c) ==
    /\ loads[c].pc = "awaiting"
    /\ done' = [call |-> c, source |-> loads[c].source,
                format |-> loads[c].format, outcome |-> "rejected",
                error |-> "Failed to load", result |-> 0, invoked |-> TRUE,
                cacheBefore |-> loader.cache, cacheAfter |-> loader.cache,
                with |-> loads[c].with]
    /\ loads' = [loads EXCEPT ![c] = IdleLoad]
    /\ UNCHANGED <<cppVars, engine, audio, jsCall, app, loader>>

\* geometryLoader.clearCache()
ClearCache ==
    /\ loader' = [loader EXCEPT !.cache = NoCache, !.completed = {}]
    /\ UNCHANGED <<cppVars, engine, audio, jsCall, app, loads, done>>

InitLoader == Init /\ room = << >> /\ sim.sampleRate_ = 2

NextLoader ==
    \/ \E c \in LoadCalls, source \in Sources, format \in Formats :
           LoadCall(c, source, format)
    \/ \E c \in LoadCalls : FileLoaded(c)
    \/ \E c \in LoadCalls : FileFailed(c)
    \/ ClearCache

SpecLoader == InitLoader /\ [][NextLoader]_vars

(***************************************************************************)
(* Electron main process events                                            *)
(***************************************************************************)
\* createWindow(): a new BrowserWindow assigned to mainWindow, then createMenu()
createWindow(a) ==
    [a EXCEPT !.mainWindow = 1, !.windows = 1, !.shown = FALSE, !.menu = TRUE]

\* what a handler that evaluates mainWindow.<member> finds
Dereference(a) == IF a.mainWindow = 0 THEN "null" ELSE "window"

\* the event `event` (of menu item `item`) has been handled and left the process as a
Handled(event, item, deref, a) ==
    /\ app' = [a EXCEPT !.event = event, !.item = item, !.deref = deref]
    /\ UNCHANGED <<cppVars, engine, audio, jsCall, loader, loads, done>>

\* app.whenReady().then(...)
WhenReady ==
    /\ ~app.ready /\ ~app.quit
    /\ Handled("ready", "", "none", [createWindow(app) EXCEPT !.ready = TRUE])

\* requestSingleInstanceLock() returned false: app.quit()
LockDenied ==
    /\ ~app.ready /\ ~app.quit
    /\ Handled("no-lock", "", "none", [app EXCEPT !.quit = TRUE])

\* 'ready-to-show' of the window: mainWindow.show(), mainWindow.focus()
ReadyToShow ==
    /\ app.windows = 1 /\ ~app.shown /\ ~app.quit
    /\ Handled("ready-to-show", "", Dereference(app),
               [app EXCEPT !.shown = TRUE])

\* the window is closed: 'closed' sets mainWindow to null, then
\* 'window-all-closed' quits unless the platform is darwin
WindowClosed ==
    /\ app.windows = 1 /\ ~app.quit
    /\ Handled("closed", "", "none",
               [app EXCEPT !.mainWindow = 0, !.windows = 0,
                           !.quit = (app.platform # "darwin"),
                           !.dialog = IF app.platform # "darwin" THEN "" ELSE @])

\* 'activate' (darwin): createWindow() when no window is open
Activate ==
    /\ app.ready /\ ~app.quit /\ app.platform = "darwin"
    /\ Handled("activate", "", "none",
               IF app.windows = 0 THEN createWindow(app) ELSE app)

\* click on a menu item whose handler is mainWindow.webContents.send(...)
MenuSend(item) ==
    /\ app.menu /\ ~app.quit
    /\ Handled("click", item, Dereference(app), app)

\* click on a menu item whose handler awaits dialog.show...Dialog(mainWindow, ...)
MenuDialog(item) ==
    /\ app.menu /\ ~app.quit /\ app.dialog = ""
    /\ Handled("click", item, "none", [app EXCEPT !.dialog = item])

\* the dialog closes: when a file was chosen the handler sends to
\* mainWindow.webContents
DialogResult(canceled) ==
    /\ app.dialog # "" /\ ~app.quit
    /\ Handled("dialog-result", app.dialog,
               IF canceled THEN "none" ELSE Dereference(app),
               [app EXCEPT !.dialog = ""])

\* click on About: dialog.showMessageBox(mainWindow, ...)
MenuAbout ==
    /\ app.menu /\ ~app.quit
    /\ Handled("click", "About", "none", app)

\* click on Exit: app.quit()
MenuExit ==
    /\ app.menu /\ ~app.quit
    /\ Handled("click", "Exit", "none",
               [app EXCEPT !.mainWindow = 0, !.windows = 0, !.quit = TRUE,
                           !.dialog = ""])

\* 'second-instance': restore and focus the window if there is one
SecondInstance ==
    /\ app.ready /\ ~app.quit
    /\ Handled("second-instance", "",
               IF app.mainWindow # 0 THEN Dereference(app) ELSE "none", app)

InitApp ==
    /\ InitNative /\ room = << >> /\ sim.sampleRate_ = 2
    /\ \E platform \in Platforms : InitJS(platform)

NextApp ==
    \/ WhenReady
    \/ LockDenied
    \/ ReadyToShow
    \/ WindowClosed
    \/ Activate
    \/ \E item \in SendItems : MenuSend(item)
    \/ \E item \in DialogItems : MenuDialog(item)
    \/ \E canceled \in BOOLEAN : DialogResult(canceled)
    \/ MenuAbout
    \/ MenuExit
    \/ SecondInstance

SpecApp == InitApp /\ [][NextApp]_vars

(***************************************************************************)
(* Properties of tracePath                                                 *)
(***************************************************************************)
\* C1: tracePath returns the direct record first (when included), then the
\* reflection records in mesh order: the triangle positions are strictly
\* increasing, so each triangle has at most one record, and when every
\* candidate is within maxDistance there are exactly 1 + Len(mesh) records.
C1_MeshOrder ==
    op.name = "tracePath" =>
        LET n == Len(reflections)
            D == VLength(VSub(op.mic, op.source))
            cand(i) == VLength(VSub(center(op.mesh[i]), op.source))
                       + VLength(VSub(op.mic, center(op.mesh[i])))
            allWithin == /\ D <= tracer.maxDistance_
                         /\ \A i \in 1..Len(op.mesh) : cand(i) <= tracer.maxDistance_
        IN /\ \A k \in 1..n : reflections[k].triangle \in 0..Len(op.mesh)
           /\ \A k \in 1..n : reflections[k].triangle = 0 => k = 1
           /\ \A j \in 1..n : \A k \in 1..n :
                  j < k => reflections[j].triangle < reflections[k].triangle
           /\ allWithin => n = 1 + Len(op.mesh)

\* C1 witness: a trace over a mesh of two triangles returned the direct
\* record and both reflection records.
C1_Witness ==
    /\ op.name = "tracePath"
    /\ Len(op.mesh) = 2
    /\ Len(reflections) = 3
    /\ reflections[1].triangle = 0
    /\ reflections[3].triangle = 2

\* C2: each candidate (direct path, each triangle) is in the result if and
\* only if its own total length is <= maxDistance; every returned record has
\* pathLength <= maxDistance.
C2_Gating ==
    op.name = "tracePath" =>
        LET n == Len(reflections)
            D == VLength(VSub(op.mic, op.source))
            cand(i) == VLength(VSub(center(op.mesh[i]), op.source))
                       + VLength(VSub(op.mic, center(op.mesh[i])))
            has(i) == \E k \in 1..n : reflections[k].triangle = i
        IN /\ has(0) <=> (D <= tracer.maxDistance_)
           /\ \A i \in 1..Len(op.mesh) : has(i) <=> (cand(i) <= tracer.maxDistance_)
           /\ \A k \in 1..n : reflections[k].pathLength <= tracer.maxDistance_

\* C2 witness: the first triangle was dropped, the second was kept with a
\* path length equal to maxDistance, and the direct record was kept.
C2_Witness ==
    /\ op.name = "tracePath"
    /\ Len(op.mesh) = 2
    /\ Len(reflections) = 2
    /\ reflections[1].triangle = 0
    /\ reflections[2].triangle = 2
    /\ reflections[2].pathLength = tracer.maxDistance_

\* C3: when the source-listener distance D is <= maxDistance, the first
\* record of the result has reflectionCount 0 and pathLength D, for any mesh.
C3_DirectFirst ==
    op.name = "tracePath" =>
        LET D == VLength(VSub(op.mic, op.source))
        IN D <= tracer.maxDistance_ =>
               /\ Len(reflections) >= 1
               /\ reflections[1].reflectionCount = 0
               /\ reflections[1].pathLength = D

\* C3 witness: a trace with D > 0 equal to maxDistance over a non-empty mesh
\* returned the direct record.
C3_Witness ==
    /\ op.name = "tracePath"
    /\ op.mesh # << >>
    /\ VLength(VSub(op.mic, op.source)) = tracer.maxDistance_
    /\ tracer.maxDistance_ > 0
    /\ Len(reflections) >= 1
    /\ reflections[1].reflectionCount = 0

\* C4: whatever maxReflections is, every record has reflectionCount 0 or 1,
\* and the result of a tracer with maxReflections > 1 equals the result of
\* the same tracer with any other maxReflections > 1.
C4_OrderAtMostOne ==
    op.name = "tracePath" =>
        /\ \A k \in 1..Len(reflections) : reflections[k].reflectionCount \in {0, 1}
        /\ tracer.maxReflections_ > 1 =>
               \A m \in {l \in ReflectionLimits : l > 1} :
                   tracePath([tracer EXCEPT !.maxReflections_ = m], op.mesh,
                             op.source, op.mic, TRUE, 1,
                             initializeMaterials(EmptyMap)).reflections
                       = reflections

\* C4 witness: a tracer with maxReflections 10 returned a first-order record.
C4_Witness ==
    /\ op.name = "tracePath"
    /\ tracer.maxReflections_ = 10
    /\ \E k \in 1..Len(reflections) : reflections[k].reflectionCount = 1

\* C5 (as claimed): with maxReflections = m >= 0 every returned record has
\* reflectionCount <= min(m, 1).
C5_BoundedByLimit ==
    (op.name \in {"tracePath", "simulate"} /\ op.max >= 0) =>
        \A k \in 1..Len(reflections) :
            reflections[k].reflectionCount <= Min(op.max, 1)

(***************************************************************************)
(* Properties of AcousticSimulator                                         *)
(***************************************************************************)
\* C6 (as claimed): every simulate call traces the Simulator's own copy of
\* the mesh, so the vector it traced equals geometry_.
C6_TracesOwnCopy ==
    op.name = "simulate" => op.mesh = sim.geometry_

\* C7 (as claimed): setMaxReflections(m) leaves geometry_, sampleRate_ and
\* irGen_ unchanged, and the new tracer has maxReflections m, speed of sound
\* 343, maxDistance 100 m and the mesh of the tracer it replaces.
C7_OnlyTracerReplaced ==
    [][op'.name = "setMaxReflections" =>
          /\ sim'.geometry_ = sim.geometry_
          /\ sim'.sampleRate_ = sim.sampleRate_
          /\ sim'.irGen_ = sim.irGen_
          /\ sim'.rayTracer_.maxReflections_ = op'.max
          /\ sim'.rayTracer_.speedOfSound_ = 343
          /\ sim'.rayTracer_.maxDistance_ = 1000
          /\ (IF sim'.rayTracer_.geometry_ = "room" THEN room' ELSE sim'.geometry_)
                 = Deref(sim.rayTracer_.geometry_)]_vars

(***************************************************************************)
(* Properties of MaterialDatabase                                          *)
(***************************************************************************)
\* C8: getMaterial(name) returns the profile registered under name when name
\* is concrete, oak or carpet, and the profile registered under "concrete"
\* for every other name.
C8_LookupFallsBack ==
    \A t \in Threads :
        pc[t] = "done" =>
            ret[t] = IF arg[t] \in {"concrete", "oak", "carpet"}
                     THEN materials_[arg[t]]
                     ELSE materials_["concrete"]

\* C8 witness: a lookup of the differently-cased name "Concrete" and a lookup
\* of a registered name have both returned.
C8_Witness ==
    \E t \in Threads : \E u \in Threads :
        /\ pc[t] = "done" /\ arg[t] = "Concrete" /\ ret[t].name = "Concrete"
        /\ pc[u] = "done" /\ arg[u] = "carpet" /\ ret[u].name = "Carpet"

\* C9: the registry is populated once; from its first access on it holds
\* exactly concrete, oak and carpet and no step changes it.
C9_RegistryReadOnly ==
    /\ [](inits <= 1)
    /\ [](constructed =>
             /\ inits = 1
             /\ DOMAIN materials_ = {"concrete", "oak", "carpet"}
             /\ materials_["concrete"] = ConcreteProfile
             /\ materials_["oak"] = OakProfile
             /\ materials_["carpet"] = CarpetProfile)
    /\ [][constructed => (constructed' /\ materials_' = materials_)]_vars

\* C9 witness: one thread has returned from a lookup of an unknown name while
\* another is between find() and the fallback.
C9_Witness ==
    \E t \in Threads : \E u \in Threads :
        /\ pc[t] = "done" /\ arg[t] = "glass"
        /\ pc[u] = "index"

(***************************************************************************)
(* Properties of FastConvolution                                           *)
(***************************************************************************)
\* C10 (as claimed): for every signal and impulse response, empty ones
\* included, convolve returns a sequence of length len(s) + len(ir) - 1
\* computed in size_t.
C10_LengthAlways ==
    op.name = "convolve" =>
        /\ ~output.threw
        /\ Len(output.value) = (Len(op.signal) + Len(op.ir) - 1) % SizeMod

\* C10 (amended): when signal and ir are not both empty, convolve returns a
\* sequence of length len(s) + len(ir) - 1; when both are empty the size
\* wraps to the largest size_t and the allocation throws.
C10_LengthUnlessBothEmpty ==
    op.name = "convolve" =>
        IF op.signal = << >> /\ op.ir = << >>
        THEN output.threw
        ELSE /\ ~output.threw
             /\ Len(output.value) = Len(op.signal) + Len(op.ir) - 1

\* C10 witness: convolve of an empty signal with a two-sample impulse
\* response returned one sample.
C10_Witness ==
    /\ op.name = "convolve"
    /\ op.signal = << >>
    /\ Len(op.ir) = 2
    /\ ~output.threw
    /\ Len(output.value) = 1

\* C11: for non-empty signal and ir, convolve returns, wrote to no index
\* outside the result, and result[k] is the sum of signal[i] * ir[j] over
\* the pairs with i + j = k; convolveOptimized returns the same sequence.
C11_DirectConvolution ==
    (op.name \in {"convolve", "convolveOptimized"}
        /\ op.signal # << >> /\ op.ir # << >>) =>
        LET pairs(k) == {p \in (0..(Len(op.signal) - 1)) \X (0..(Len(op.ir) - 1)) :
                             p[1] + p[2] = k}
            RECURSIVE SumOver(_, _)
            SumOver(ps, k) ==
                IF ps = {} THEN 0
                ELSE LET p == CHOOSE q \in ps : TRUE
                     IN FMul(op.signal[p[1] + 1], op.ir[p[2] + 1])
                        + SumOver(ps \ {p}, k)
        IN /\ ~output.threw
           /\ ~output.oob
           /\ Len(output.value) = Len(op.signal) + Len(op.ir) - 1
           /\ \A k \in 0..(Len(output.value) - 1) :
                  output.value[k + 1] = SumOver(pairs(k), k)

\* C11 witness: convolveOptimized of two two-sample sequences returned a
\* middle sample that is the sum of two non-zero products.
C11_Witness ==
    /\ op.name = "convolveOptimized"
    /\ Len(op.signal) = 2 /\ Len(op.ir) = 2
    /\ \A k \in 1..2 : op.signal[k] # 0 /\ op.ir[k] # 0
    /\ ~output.threw
    /\ output.value[2] = FMul(op.signal[1], op.ir[2]) + FMul(op.signal[2], op.ir[1])

\* C12: convolve(s, [1.0]) returns s, element for element, for every s,
\* the empty signal included.
C12_Identity ==
    (op.name = "convolve" /\ op.ir = <<Q>>) =>
        /\ ~output.threw
        /\ output.value = op.signal

\* C12 witness: convolve of a two-sample non-zero signal with [1.0] and of
\* the signal returned.
C12_Witness ==
    /\ op.name = "convolve"
    /\ op.ir = <<Q>>
    /\ Len(op.signal) = 2
    /\ op.signal[1] # 0 /\ op.signal[2] # 0
    /\ output.value = op.signal

(***************************************************************************)
(* Properties of simulate                                                  *)
(***************************************************************************)
\* C13: when the convolution output of simulate has a non-zero sample, every
\* returned sample is the raw sample scaled by 0.9 / maxAbs (to the last
\* digit), the largest magnitude returned is exactly 0.9, no sample exceeds
\* 0.9, and signs and zero samples are kept.
C13_NormalizedPeak ==
    op.name = "simulate" =>
        LET raw == convolve(op.signal,
                            generateIR(sim.irGen_, reflections, DefaultDurationSec)).value
            n == Len(raw)
            mags == {Abs(raw[k]) : k \in 1..n}
            maxAbs == CHOOSE m \in mags : \A x \in mags : x <= m
            out == output.value
        IN (\E k \in 1..n : raw[k] # 0) =>
               /\ ~output.threw
               /\ Len(out) = n
               /\ \E k \in 1..n : Abs(out[k]) = 900
               /\ \A k \in 1..n :
                      /\ Abs(out[k]) <= 900
                      /\ Abs(out[k] * maxAbs - 900 * raw[k]) <= maxAbs
                      /\ raw[k] > 0 => out[k] >= 0
                      /\ raw[k] < 0 => out[k] <= 0
                      /\ raw[k] = 0 => out[k] = 0

\* C13 witness: a simulate call returned an output whose peak is a negative
\* sample of magnitude 0.9 next to a zero sample.
C13_Witness ==
    /\ op.name = "simulate"
    /\ ~output.threw
    /\ \E k \in 1..Len(output.value) : output.value[k] = -900
    /\ \E k \in 1..Len(output.value) : output.value[k] = 0

\* C14: when the convolution result of simulate is all zero, as it is for
\* every all-zero input signal, simulate returns the all-zero sequence of
\* length len(input) + len(IR) - 1 and no sample is the result of a division
\* by zero.
C14_SilenceUnscaled ==
    op.name = "simulate" =>
        LET ir == generateIR(sim.irGen_, reflections, DefaultDurationSec)
            raw == convolve(op.signal, ir).value
            silent == \A k \in 1..Len(raw) : raw[k] = 0
            zeroInput == \A k \in 1..Len(op.signal) : op.signal[k] = 0
        IN /\ zeroInput => silent
           /\ silent =>
                  /\ ~output.threw
                  /\ output.value = [k \in 1..(Len(op.signal) + Len(ir) - 1) |-> 0]

\* C14 witness: simulate of a one-sample zero signal over traced reflections
\* returned len(IR) zero samples.
C14_Witness ==
    /\ op.name = "simulate"
    /\ op.signal = <<0>>
    /\ reflections # << >>
    /\ ~output.threw
    /\ Len(output.value) = NumSamples(sim.irGen_, DefaultDurationSec)
    /\ \A k \in 1..Len(output.value) : output.value[k] = 0

\* C15: a simulate call performs trace, generateIR, convolve, normalize once
\* each in that order, each step working on the complete result of the step
\* before it, there is no transition out of a running call other than its
\* next step, and every call that has started returns.
C15_FourStepsInOrder ==
    /\ [](LET order == <<"trace", "generateIR", "convolve", "normalize">>
              traced == tracePath(sim.rayTracer_, op.mesh, op.source, op.mic,
                                  constructed, inits, materials_).reflections
              synthesized == generateIR(sim.irGen_, reflections, DefaultDurationSec)
              convolved == convolve(op.signal, irBuf.value)
          IN op.name = "simulate" =>
               /\ Len(steps) <= 4
               /\ steps = SubSeq(order, 1, Len(steps))
               /\ simPc = IF Len(steps) = 4 THEN "done" ELSE order[Len(steps) + 1]
               /\ Len(steps) >= 1 => reflections = traced
               /\ Len(steps) >= 2 => irBuf.value = synthesized
               /\ Len(steps) = 3 => output = convolved
               /\ Len(steps) = 4 =>
                     output = [convolved EXCEPT !.value = Normalize(convolved.value)])
    /\ [][(simPc \notin {"idle", "done"} /\ simPc' # simPc) =>
             (steps' = Append(steps, simPc))]_vars
    /\ (simPc = "trace") ~> (simPc = "done")

\* C15 witness: a call over a mesh with a reflecting triangle has returned a
\* non-silent output after its four steps.
C15_Witness ==
    /\ op.name = "simulate"
    /\ simPc = "done"
    /\ steps = <<"trace", "generateIR", "convolve", "normalize">>
    /\ Len(reflections) >= 2
    /\ \E k \in 1..Len(output.value) : output.value[k] = 900

(***************************************************************************)
(* Properties of generateIR                                                *)
(***************************************************************************)
\* C16: generateIR returns floor(durationSec * sampleRate) samples; a record
\* whose delay d is >= that length writes nothing, a record with d < length
\* writes exactly the samples d .. d + min(64, length - d) - 1, no write is
\* outside the buffer, and samples that are not written stay zero.
C16_PulseWindow ==
    op.name = "generateIR" =>
        LET length == (op.duration * op.rate) \div Q
            delay(k) == (op.recs[k].pathLength * op.rate) \div (op.speed * DM)
            window(k) == IF delay(k) >= length THEN {}
                         ELSE delay(k)..(delay(k) + Min(64, length - delay(k)) - 1)
            windows == UNION {window(k) : k \in 1..Len(op.recs)}
        IN /\ Len(irBuf.value) = length
           /\ irBuf.writes \subseteq 0..(length - 1)
           /\ irBuf.writes = windows
           /\ \A n \in 0..(length - 1) : n \notin windows => irBuf.value[n + 1] = 0

\* C16 witness: in an 80-sample buffer one record wrote 64 samples from its
\* delay, another was truncated by the end of the buffer.
C16_Witness ==
    /\ op.name = "generateIR"
    /\ Len(irBuf.value) = 80
    /\ Len(op.recs) = 2
    /\ op.recs[1].pathLength = 50 /\ op.recs[2].pathLength = 2000
    /\ irBuf.writes = (0..63) \cup (23..79)
    /\ irBuf.value[1] # 0

\* C17: the impulse response of a list of records is the element-wise sum of
\* the impulse responses of each record alone, and does not depend on the
\* order of the records.
C17_PulsesAccumulate ==
    op.name = "generateIR" =>
        LET gen == ImpulseResponseGenerator(op.rate, op.speed)
            n == Len(op.recs)
            alone(k) == generateIR(gen, <<op.recs[k]>>, op.duration)
            SumAt[k \in 0..n] ==
                [s \in 1..Len(irBuf.value) |->
                    IF k = 0 THEN 0 ELSE SumAt[k - 1][s] + alone(k)[s]]
            reversed == [k \in 1..n |-> op.recs[n + 1 - k]]
        IN /\ irBuf.value = SumAt[n]
           /\ irBuf.value = generateIR(gen, reversed, op.duration)

\* C17 witness: two records with the same delay both contributed to the
\* sample at that delay.
C17_Witness ==
    /\ op.name = "generateIR"
    /\ op.rate = 40 /\ op.duration = 2000
    /\ Len(op.recs) = 2
    /\ op.recs[1].pathLength = 50 /\ op.recs[2].pathLength = 50
    /\ op.recs[1] # op.recs[2]
    /\ irBuf.value[1] = 500 + 500

(***************************************************************************)
(* Properties of Triangle                                                  *)
(***************************************************************************)
\* C18: intersect tests parallelism, then u in [0,1], then v >= 0 and
\* u + v <= 1, then t > epsilon, and returns false at the first test that
\* fails (u, v, t are assigned only up to that test); it returns true iff all
\* four pass, and then u >= 0, v >= 0, u + v <= 1, t > 0 and
\* origin + t * dir is the point v0 + u * edge1 + v * edge2 of the triangle.
C18_TestsInOrder ==
    op.name = "intersect" =>
        LET e1 == VSub(op.tri.v1, op.tri.v0)
            e2 == VSub(op.tri.v2, op.tri.v0)
            s == VSub(op.source, op.tri.v0)
            a == VDot(e1, VCross(op.dir, e2))
            nu == VDot(s, VCross(op.dir, e2))
            nv == VDot(op.dir, VCross(s, e1))
            nt == VDot(e2, VCross(s, e1))
            P1 == a # 0
            P2 == nu * a >= 0 /\ nu * a <= a * a
            P3 == nv * a >= 0 /\ (nu + nv) * a <= a * a
            P4 == nt * a > 0
            onRay(c) == hit.a * op.source[c] + hit.nt * op.dir[c]
            onTri(c) == hit.a * op.tri.v0[c] + hit.nu * e1[c] + hit.nv * e2[c]
        IN /\ hit.hit <=> (P1 /\ P2 /\ P3 /\ P4)
           /\ hit.uSet <=> P1
           /\ hit.vSet <=> (P1 /\ P2)
           /\ hit.tSet <=> (P1 /\ P2 /\ P3)
           /\ hit.hit =>
                 /\ hit.a # 0
                 /\ hit.nu * hit.a >= 0
                 /\ hit.nv * hit.a >= 0
                 /\ (hit.nu + hit.nv) * hit.a <= hit.a * hit.a
                 /\ hit.nt * hit.a > 0
                 /\ \A c \in {"x", "y", "z"} : onRay(c) = onTri(c)

\* C18 witness: a ray that meets the triangle on its edge u + v = 1 in front
\* of the origin is reported as a hit.
C18_Witness ==
    /\ op.name = "intersect"
    /\ hit.hit
    /\ hit.nu # 0 /\ hit.nv # 0
    /\ (hit.nu + hit.nv) * hit.a = hit.a * hit.a

\* C19: intersect returns false whenever the direction lies in the
\* triangle's plane and whenever the triangle has zero area, it has no error
\* outcome, and normal() of a zero-area triangle is the zero vector.
C19_ParallelAndDegenerate ==
    LET cross == VCross(VSub(op.tri.v1, op.tri.v0), VSub(op.tri.v2, op.tri.v0))
        degenerate == cross = Vec(0, 0, 0)
    IN /\ op.name = "intersect" =>
              /\ VDot(op.dir, cross) = 0 => ~hit.hit
              /\ degenerate => ~hit.hit
              /\ hit.hit \in BOOLEAN
       /\ op.name = "normal" =>
              /\ degenerate => hit.normal = Vec(0, 0, 0)
              /\ \A c \in {"x", "y", "z"} : hit.normal[c] # NonFinite

\* C19 witness: a ray aimed at a triangle with two equal vertices was
\* rejected.
C19_Witness ==
    /\ op.name = "intersect"
    /\ op.tri.v0 = op.tri.v1 /\ op.tri.v0 # op.tri.v2
    /\ op.dir # Vec(0, 0, 0)
    /\ ~hit.hit

(***************************************************************************)
(* Properties of calculateAttenuation                                      *)
(***************************************************************************)
\* C20 as stated: for every coefficient array and every band, the
\* attenuation at the longer of two path lengths greater than 0.1 is strictly
\* smaller.
C20_StrictlyDecreasing ==
    (/\ Len(att) = 2
     /\ att[1].coeff = att[2].coeff
     /\ att[1].distance > 1
     /\ att[1].distance < att[2].distance)
        => \A i \in 1..6 : att[2].value[i] < att[1].value[i]

\* C20 amended: over path lengths greater than 0.1 the attenuation of a band
\* strictly decreases with the path length if the band's coefficient is
\* positive, is 0 at every path length if the coefficient is 0, and strictly
\* increases towards 0 if the coefficient is negative.
C20_MonotoneBySign ==
    (/\ Len(att) = 2
     /\ att[1].coeff = att[2].coeff
     /\ att[1].distance > 1
     /\ att[1].distance < att[2].distance)
        => \A i \in 1..6 :
              /\ att[1].coeff[i] > 0 =>
                    (att[2].value[i] < att[1].value[i] /\ att[2].value[i] >= 0)
              /\ att[1].coeff[i] = 0 =>
                    (att[1].value[i] = 0 /\ att[2].value[i] = 0)
              /\ att[1].coeff[i] < 0 =>
                    (att[2].value[i] > att[1].value[i] /\ att[2].value[i] <= 0)

\* C20 witness: two calls with the same array of mixed signs, the second at
\* a longer path, gave a smaller value in a positive band and a larger one
\* in a negative band.
C20_Witness ==
    /\ Len(att) = 2
    /\ att[1].coeff = Six(1500, 1000, 500, 20, 0, -500)
    /\ att[2].coeff = att[1].coeff
    /\ att[1].distance = 10 /\ att[2].distance = 100
    /\ att[2].value[1] < att[1].value[1]
    /\ att[2].value[5] = att[1].value[5]
    /\ att[2].value[6] > att[1].value[6]

(***************************************************************************)
(* Properties of tracePath results                                         *)
(***************************************************************************)
\* C21: with an empty traced mesh simulate does not fail; the traced list
\* is exactly one record of reflectionCount 0 when the source-listener
\* distance is <= maxDistance and is empty otherwise, and the output has
\* len(input) + len(IR) - 1 samples.
C21_EmptyMesh ==
    (op.name = "simulate" /\ op.mesh = << >>) =>
        /\ IF VLength(VSub(op.mic, op.source)) <= sim.rayTracer_.maxDistance_
           THEN Len(reflections) = 1 /\ reflections[1].reflectionCount = 0
           ELSE reflections = << >>
        /\ ~output.threw
        /\ Len(output.value) =
               Len(op.signal) + ((2 * Q * sim.sampleRate_) \div Q) - 1

\* C21 witness: simulate over an empty mesh with the listener out of range
\* traced no path and still returned a two-sample input's full-length output.
C21_Witness ==
    /\ op.name = "simulate"
    /\ op.mesh = << >>
    /\ reflections = << >>
    /\ Len(op.signal) = 2
    /\ Len(output.value) = 2 * sim.sampleRate_ + 1

\* C22: in a tracePath result a record has no triangle iff its
\* reflectionCount is 0, and then its reflection point is the source; a
\* record with reflectionCount 1 refers to a triangle of the traced mesh,
\* its reflection point is that triangle's centroid, its pathLength is
\* |centroid - source| + |listener - centroid|, and its attenuation is
\* computed from the reflection coefficients the registry resolves the
\* triangle's material name to (concrete's for an unknown name).
C22_RecordFields ==
    op.name = "tracePath" =>
        \A k \in 1..Len(reflections) :
            LET r == reflections[k]
                registry == initializeMaterials(EmptyMap)
                resolved(name) == IF name \in {"concrete", "oak", "carpet"}
                                  THEN registry[name] ELSE registry["concrete"]
            IN /\ r.reflectionCount \in {0, 1}
               /\ (r.triangle = 0) <=> (r.reflectionCount = 0)
               /\ r.reflectionCount = 0 => r.reflectionPoint = op.source
               /\ r.reflectionCount = 1 =>
                     /\ r.triangle \in 1..Len(op.mesh)
                     /\ LET tri == op.mesh[r.triangle]
                            c == Vec(Third(tri.v0.x + tri.v1.x + tri.v2.x),
                                     Third(tri.v0.y + tri.v1.y + tri.v2.y),
                                     Third(tri.v0.z + tri.v1.z + tri.v2.z))
                        IN /\ r.reflectionPoint = c
                           /\ r.pathLength = VLength(VSub(c, op.source))
                                             + VLength(VSub(op.mic, c))
                           /\ r.attenuation =
                                 calculateAttenuation(r.pathLength,
                                     resolved(tri.material).reflectionCoeff)

\* C22 witness: a trace returned the direct record and the record of a
\* triangle whose material name is not in the registry.
C22_Witness ==
    /\ op.name = "tracePath"
    /\ Len(reflections) >= 2
    /\ reflections[1].reflectionCount = 0
    /\ reflections[1].reflectionPoint = op.source
    /\ reflections[2].reflectionCount = 1
    /\ op.mesh[reflections[2].triangle].material = "glass"
    /\ reflections[2].attenuation[1] > 0

\* C23: the amplitude of a path is the mean of its six band values: a
\* single record whose delay is inside the buffer puts that mean at its
\* delay sample, and a list of records with the same path lengths and the
\* same band sums, whatever the individual band values, gives the same
\* impulse response.
C23_BandCollapse ==
    op.name = "generateIR" =>
        LET gen == ImpulseResponseGenerator(op.rate, op.speed)
            sum(r) == r.attenuation[1] + r.attenuation[2] + r.attenuation[3]
                      + r.attenuation[4] + r.attenuation[5] + r.attenuation[6]
            delay(r) == (r.pathLength * op.rate) \div (op.speed * DM)
            alike(other) ==
                /\ Len(other) = Len(op.recs)
                /\ \A k \in 1..Len(other) :
                       /\ other[k].pathLength = op.recs[k].pathLength
                       /\ sum(other[k]) = sum(op.recs[k])
        IN /\ (Len(op.recs) = 1 /\ delay(op.recs[1]) < Len(irBuf.value)) =>
                  irBuf.value[delay(op.recs[1]) + 1] = sum(op.recs[1]) \div 6
           /\ \A other \in IRRecordLists :
                  alike(other) => generateIR(gen, other, op.duration) = irBuf.value

\* C23 witness: a record with unequal bands gave the non-silent response that
\* the record with the same path length, the same band sum and equal bands
\* gives.
C23_Witness ==
    /\ op.name = "generateIR"
    /\ op.recs = << Rec(50, Six(1000, 800, 600, 400, 200, 0)) >>
    /\ irBuf.value # << >>
    /\ irBuf.value[1] = 500
    /\ irBuf.value =
          generateIR(sim.irGen_, << Rec(50, Six(500, 500, 500, 500, 500, 500)) >>,
                     op.duration)

\* C24 (as claimed): a simulate call leaves every field of the Simulator and
\* every registry entry as it was, and two simulate calls on the same
\* Simulator with equal arguments and no other operation on the Simulator
\* in between return equal outputs.
C24_ReadOnlyDeterministic ==
    /\ \A k \in 1..Len(calls) :
           /\ calls[k].simAfter = calls[k].simBefore
           /\ calls[k].registryAfter = calls[k].registryBefore
    /\ (/\ Len(calls) = 2
        /\ calls[1].source = calls[2].source
        /\ calls[1].signal = calls[2].signal
        /\ calls[1].mic = calls[2].mic)
           => calls[1].output = calls[2].output

(***************************************************************************)
(* Properties of the AudioEngine                                           *)
(***************************************************************************)
\* C25: startSource on a playing source and stopSource on a stopped or
\* unknown source change nothing; no oscillator node has had start() called
\* on it more than once; a stopSource that stops a playing source leaves the
\* source with a fresh oscillator (never started) connected to the same gain
\* node; and every stopped source in the map holds an oscillator that has
\* never been started, so it can be started again.
C25_StartStopCycle ==
    LET before == jsCall.before
        known == jsCall.id \in DOMAIN before.engine.sources
        wasPlaying == known /\ before.engine.sources[jsCall.id].isPlaying
    IN /\ \A k \in 1..Len(audio.oscillators) : audio.oscillators[k].starts <= 1
       /\ (jsCall.name = "startSource" /\ wasPlaying)
              => (engine = before.engine /\ audio = before.audio)
       /\ (jsCall.name = "stopSource" /\ ~wasPlaying)
              => (engine = before.engine /\ audio = before.audio)
       /\ (jsCall.name = "stopSource" /\ wasPlaying)
              => LET old == before.engine.sources[jsCall.id]
                     source == engine.sources[jsCall.id]
                 IN /\ ~source.isPlaying
                    /\ source.gainNode = old.gainNode
                    /\ source.oscillator > Len(before.audio.oscillators)
                    /\ audio.oscillators[source.oscillator] =
                           OscillatorNode(old.gainNode)
                    /\ audio.oscillators[old.oscillator].stops = 1
       /\ \A id \in DOMAIN engine.sources :
              ~engine.sources[id].isPlaying
                  => audio.oscillators[engine.sources[id].oscillator].starts = 0

\* a source has been started, stopped and started again, and is now stopped
\* for the second time
C25_Witness ==
    /\ jsCall.name = "stopSource"
    /\ jsCall.id \in DOMAIN jsCall.before.engine.sources
    /\ jsCall.before.engine.sources[jsCall.id].isPlaying
    /\ Cardinality({k \in 1..Len(audio.oscillators) :
                       /\ audio.oscillators[k].gainNode =
                              engine.sources[jsCall.id].gainNode
                       /\ audio.oscillators[k].starts = 1
                       /\ audio.oscillators[k].stops = 1}) = 2

\* C26 (as claimed): every oscillator that has been started and not yet
\* stopped is the oscillator of a source stored in the sources map.
C26_PlayingOscillatorsOwned ==
    \A k \in 1..Len(audio.oscillators) :
        audio.oscillators[k].starts > audio.oscillators[k].stops
            => \E id \in DOMAIN engine.sources :
                   engine.sources[id].oscillator = k

\* C27 (as claimed): createSource adds a source only while the engine is
\* initialized and otherwise throws 'Audio engine not initialized' and leaves
\* the sources map as it was; initialize on an initialized engine creates no
\* context; after dispose no oscillator that was started is still running,
\* both maps are empty, the context is null and isInitialized is false.
C27_Lifecycle ==
    LET before == jsCall.before
    IN /\ (jsCall.name = "createSource" /\ ~before.engine.isInitialized)
              => /\ jsCall.threw = "Audio engine not initialized"
                 /\ engine.sources = before.engine.sources
       /\ (jsCall.name = "createSource" /\ before.engine.isInitialized)
              => /\ jsCall.threw = ""
                 /\ jsCall.id \in DOMAIN engine.sources
       /\ (jsCall.name = "initialize" /\ before.engine.isInitialized)
              => audio.contexts = before.audio.contexts
       /\ jsCall.name = "dispose"
              => /\ \A k \in 1..Len(audio.oscillators) :
                        audio.oscillators[k].starts <= audio.oscillators[k].stops
                 /\ engine.sources = NoSources
                 /\ engine.outputs = {}
                 /\ engine.context = 0
                 /\ ~engine.isInitialized

(***************************************************************************)
(* Properties of the GeometryLoader                                        *)
(***************************************************************************)
\* C28 (as claimed): the cache holds a key only if a load of that key has
\* completed successfully since the last clearCache; a load that fails
\* leaves the cache as it was; and a load of a key that is in the cache
\* returns the cached result without invoking a file loader, whatever
\* format argument (omitted, supported or unsupported) is passed.
C28_CacheContents ==
    /\ DOMAIN loader.cache \subseteq loader.completed
    /\ done.outcome = "rejected" => done.cacheAfter = done.cacheBefore
    /\ (/\ done.outcome # "none"
        /\ ~done.invoked
        /\ done.source \in DOMAIN done.cacheBefore)
           => /\ done.outcome = "resolved"
              /\ done.result = done.cacheBefore[done.source]

\* C29 (as claimed): a load call that starts while another call for the
\* same key is pending awaits the file loader invocation of that call, and
\* when it resolves it returns the result object of that invocation, which
\* is the one in the cache.
C29_OverlappingLoadsShare ==
    /\ \A c \in LoadCalls :
           loads[c].pc = "awaiting" => loads[c].with \subseteq {loads[c].file}
    /\ (done.outcome = "resolved" /\ done.with # {})
           => /\ done.with = {done.result}
              /\ loader.cache[done.source] = done.result

(***************************************************************************)
(* Properties of the Electron main process                                 *)
(***************************************************************************)
\* C30 (as claimed): no handler evaluates a member of mainWindow while
\* mainWindow is null: a handler that sends to mainWindow.webContents or
\* focuses mainWindow runs only while mainWindow refers to an open window.
C30_NoNullDereference ==
    /\ app.deref # "null"
    /\ app.deref = "window" => (app.mainWindow = 1 /\ app.windows = 1)

====
